---- MODULE Spec2Model ----
(***************************************************************************)
(* pydantic-database-helpers: the Oracle query generator                   *)
(* (pydantic_database_helpers/query_helper.py) and the data-access facade  *)
(* built on it (pydantic_database_helpers/database_helper.py).             *)
(*                                                                         *)
(* A text (a SQL statement, a WHERE filter, an error message) is a         *)
(* sequence of atoms whose concatenation is the Python string: a keyword,  *)
(* a name or a punctuation mark is one atom, every whitespace character is *)
(* an atom of its own, and a caller-supplied WHERE filter is spelled one   *)
(* character per atom, so that str.lower, the substring test `in` and      *)
(* str.strip are computed on it as Python computes them.                   *)
(***************************************************************************)
EXTENDS Integers, Sequences, FiniteSets, TLC

VARIABLES pc, call, result, log, conn, backend, gen, db, previous

vars == <<pc, call, result, log, conn, backend, gen, db, previous>>

\* ------------------------------------------------------------------ bounds

\* Declared fields per model (the pool below supplies the names).
MaxFields == 3

\* Length of the key-field list `using`.
MaxUsing == 2

\* Characters put before and after the core of a WHERE filter.
MaxPad == 1

\* --------------------------------------------------------------- universes

FieldPool == <<"id", "name", "age", "salary">>

FieldNames == {FieldPool[i] : i \in 1..MaxFields}

\* A name no model of the universe declares (tests/test_query_helper.py:116).
GhostField == "non_existing_field"

UsingNames == FieldNames \cup {GhostField}

\* A class-level attribute annotated ClassVar: an entry of __annotations__
\* that is no pydantic field.
ClassVarName == "MAX_ROWS"

TableNameAttr == "__TABLE_NAME__"

SeqsNoDup(S, n) ==
  UNION {{s \in [1..k -> S] : \A i, j \in 1..k : s[i] = s[j] => i = j} : k \in 0..n}

Range(s) == {s[i] : i \in 1..Len(s)}

\* str.startswith('__') on the names an annotation can carry.
StartsWithDunder(nm) == nm \in {TableNameAttr}

IsNotDunder(nm) == ~StartsWithDunder(nm)

(***************************************************************************)
(* A model class, as the code reads it: whether the attribute              *)
(* __TABLE_NAME__ exists and its value, the keys of the class's own        *)
(* __annotations__ in order, the keys of model_fields in order (the        *)
(* parent's fields first, then the class's own), and __name__.             *)
(*   plain     every field is annotated on the class itself                *)
(*   inherits  the first field is declared by a parent model               *)
(*   classvar  the class also annotates a ClassVar attribute               *)
(***************************************************************************)
ModelKinds == {"plain", "inherits", "classvar"}

OwnAnnotations(kind, has_table, fields) ==
  (IF has_table THEN <<TableNameAttr>> ELSE <<>>)
    \o (IF kind = "inherits" /\ fields # <<>> THEN Tail(fields) ELSE fields)
    \o (IF kind = "classvar" THEN <<ClassVarName>> ELSE <<>>)

MkModel(kind, has_table, fields) ==
  [ kind |-> kind,
    has_table |-> has_table,
    table |-> IF has_table THEN "simple_table" ELSE "",
    annotations |-> OwnAnnotations(kind, has_table, fields),
    model_fields |-> fields,
    name |-> IF has_table THEN "SimpleTable" ELSE "NoTableNameModel" ]

FieldLists == SeqsNoDup(FieldNames, MaxFields)

Models ==
  {MkModel(k, t, f) : k \in ModelKinds, t \in BOOLEAN, f \in FieldLists}

\* generate_select/delete/update/upsert read only __TABLE_NAME__, model_fields
\* and __name__: the plain models cover every input they can tell apart.
PlainModels == {m \in Models : m.kind = "plain"}

Usings == SeqsNoDup(UsingNames, MaxUsing)

\* ------------------------------------------------------------------- texts

Space == " "

Newline == "\n"

IsSpace(a) == a \in {Space, Newline, "\t"}

RECURSIVE Join(_, _)

\* sep.join(parts), each part and sep a text.
Join(parts, sep) ==
  IF parts = <<>> THEN <<>>
  ELSE IF Len(parts) = 1 THEN parts[1]
  ELSE parts[1] \o sep \o Join(Tail(parts), sep)

RECURSIVE Spaces(_)
Spaces(n) == IF n = 0 THEN <<>> ELSE <<Space>> \o Spaces(n - 1)

RECURSIVE LStrip(_)
LStrip(t) == IF t # <<>> /\ IsSpace(Head(t)) THEN LStrip(Tail(t)) ELSE t

RECURSIVE RStrip(_)
RStrip(t) ==
  IF t # <<>> /\ IsSpace(t[Len(t)]) THEN RStrip(SubSeq(t, 1, Len(t) - 1)) ELSE t

\* str.strip(): leading and trailing whitespace removed.
Strip(t) == RStrip(LStrip(t))

CommaSep == <<",", Space>>

AndSep == <<Space, "AND", Space>>

\* ----------------------------------------------------------------- results

Ok(text) == [kind |-> "ok", text |-> text]

Raise(kind, msg) == [kind |-> kind, text |-> msg]

MISSING_TABLE_NAME_ATTR_MSG == <<"The model must have a __TABLE_NAME__ attribute.">>

EMPTY_USING_MSG == <<"No fields specified in 'using'.">>

NO_FIELDS_TO_UPDATE_MSG == <<"No fields to update after excluding 'using' fields.">>

\* ------------------------------------------------------ the query generator

ColumnText(column) == <<column>>

Placeholder(field) == <<":", field>>

\* f"{table_name}.{field} = :{field}"
QualifiedAssign(table_name, field) ==
  <<table_name, ".", field, Space, "=", Space, ":", field>>

\* f"{table_name}.{field} = src.{field}"
KeyCondition(table_name, field) ==
  <<table_name, ".", field, Space, "=", Space, "src", ".", field>>

\* f"{column} = :{column}"
SetAssign(column) == <<column, Space, "=", Space, ":", column>>

\* f":{field} as {field}"
SourceColumn(field) == <<":", field, Space, "as", Space, field>>

IsIn(using, field) == \E i \in 1..Len(using) : using[i] = field

\* [field for field in fields if field not in using], in the order of fields.
RECURSIVE Excluding(_, _)
Excluding(fields, using) ==
  IF fields = <<>> THEN <<>>
  ELSE (IF IsIn(using, Head(fields)) THEN <<>> ELSE <<Head(fields)>>)
         \o Excluding(Tail(fields), using)

InsertColumns(model) == SelectSeq(model.annotations, IsNotDunder)

generate_insert_query(model) ==
  IF ~model.has_table
  THEN \* line 41 reads model.__TABLE_NAME__ outside any try: the attribute
       \* lookup itself raises AttributeError, with the interpreter's message.
       Raise("AttributeError", <<TableNameAttr>>)
  ELSE LET table_name == model.table
           columns == InsertColumns(model)
           placeholders == [i \in 1..Len(columns) |-> Placeholder(columns[i])]
           columns_str == Join([i \in 1..Len(columns) |-> ColumnText(columns[i])], CommaSep)
           placeholders_str == Join(placeholders, CommaSep)
       IN Ok(<<"INSERT", Space, "INTO", Space, table_name, Space, "(">>
               \o columns_str
               \o <<")", Space, "VALUES", Space, "(">>
               \o placeholders_str
               \o <<")">>)

\* generate_upsert_query without the membership loop of lines 69-71.
FirstUndeclared_skipped(using, columns) == 0

\* The first element of `using` the loop of lines 69-71 finds outside columns,
\* as an index into using; 0 when every element is a column.
FirstUndeclared(using, columns) ==
  LET bad == {i \in 1..Len(using) : ~IsIn(columns, using[i])}
  IN IF bad = {} THEN 0 ELSE CHOOSE i \in bad : \A j \in bad : i <= j

UndeclaredFieldMsg(field, model) ==
  <<"The field '", field, "' does not exist in the model ", model.name>>

UpsertText(table_name, columns, using) ==
  LET key_conditions ==
        Join([i \in 1..Len(using) |-> KeyCondition(table_name, using[i])], AndSep)
      to_set == Excluding(columns, using)
      set_clause == Join([i \in 1..Len(to_set) |-> SetAssign(to_set[i])], CommaSep)
      insert_clause == Join([i \in 1..Len(columns) |-> ColumnText(columns[i])], CommaSep)
      values_clause == Join([i \in 1..Len(columns) |-> Placeholder(columns[i])], CommaSep)
      source == Join([i \in 1..Len(using) |-> SourceColumn(using[i])], CommaSep)
  IN <<Newline>> \o Spaces(12)
       \o <<"MERGE", Space, "INTO", Space, table_name, Space, "USING", Space,
            "(", "SELECT", Space>> \o source
       \o <<Space, "FROM", Space, "dual", ")", Space, "src", Newline>> \o Spaces(12)
       \o <<"ON", Space, "(">> \o key_conditions \o <<")", Newline>> \o Spaces(12)
       \o <<"WHEN", Space, "MATCHED", Space, "THEN", Newline>> \o Spaces(16)
       \o <<"UPDATE", Space, "SET", Space>> \o set_clause \o <<Newline>> \o Spaces(12)
       \o <<"WHEN", Space, "NOT", Space, "MATCHED", Space, "THEN", Newline>> \o Spaces(16)
       \o <<"INSERT", Space, "(">> \o insert_clause \o <<")", Newline>> \o Spaces(16)
       \o <<"VALUES", Space, "(">> \o values_clause \o <<")", Newline>> \o Spaces(12)

\* generate_upsert_query testing `using` before it reads __TABLE_NAME__.
generate_upsert_query_using_first(model, using) ==
  IF Len(using) = 0 THEN Raise("ValueError", EMPTY_USING_MSG)
  ELSE IF ~model.has_table THEN Raise("AttributeError", MISSING_TABLE_NAME_ATTR_MSG)
  ELSE LET columns == model.model_fields
           bad == FirstUndeclared(using, columns)
       IN IF bad # 0
          THEN Raise("ValueError", UndeclaredFieldMsg(using[bad], model))
          ELSE Ok(UpsertText(model.table, columns, using))

generate_upsert_query(model, using) ==
  IF ~model.has_table THEN Raise("AttributeError", MISSING_TABLE_NAME_ATTR_MSG)
  ELSE IF Len(using) = 0 THEN Raise("ValueError", EMPTY_USING_MSG)
  ELSE LET columns == model.model_fields
           bad == FirstUndeclared(using, columns)
       IN IF bad # 0
          THEN Raise("ValueError", UndeclaredFieldMsg(using[bad], model))
          ELSE Ok(UpsertText(model.table, columns, using))

\* The WHERE conditions built from the first key field alone.
WhereConditions_first_key(table_name, using) ==
  IF using = <<>> THEN <<>> ELSE QualifiedAssign(table_name, using[1])

WhereConditions(table_name, using) ==
  Join([i \in 1..Len(using) |-> QualifiedAssign(table_name, using[i])], AndSep)

\* generate_delete_query without the test of lines 97-98.
generate_delete_query_unchecked(model, using) ==
  IF ~model.has_table THEN Raise("AttributeError", MISSING_TABLE_NAME_ATTR_MSG)
  ELSE Ok(Strip(<<"DELETE", Space, "FROM", Space, model.table, Space, "WHERE", Space>>
                  \o WhereConditions(model.table, using)))

generate_delete_query(model, using) ==
  IF ~model.has_table THEN Raise("AttributeError", MISSING_TABLE_NAME_ATTR_MSG)
  ELSE IF Len(using) = 0 THEN Raise("ValueError", EMPTY_USING_MSG)
  ELSE LET table_name == model.table
           where_conditions == WhereConditions(table_name, using)
       IN Ok(Strip(<<"DELETE", Space, "FROM", Space, table_name, Space, "WHERE", Space>>
                     \o where_conditions))

\* generate_update_query without the test of lines 120-121.
generate_update_query_unchecked(model, using) ==
  IF ~model.has_table THEN Raise("AttributeError", MISSING_TABLE_NAME_ATTR_MSG)
  ELSE IF Len(using) = 0 THEN Raise("ValueError", EMPTY_USING_MSG)
  ELSE LET table_name == model.table
           fields_to_update == Excluding(model.model_fields, using)
           set_clause ==
             Join([i \in 1..Len(fields_to_update) |->
                     QualifiedAssign(table_name, fields_to_update[i])], CommaSep)
       IN Ok(Strip(<<"UPDATE", Space, table_name, Space, "SET", Space>>
                     \o set_clause
                     \o <<Space, "WHERE", Space>>
                     \o WhereConditions(table_name, using)))

generate_update_query(model, using) ==
  IF ~model.has_table THEN Raise("AttributeError", MISSING_TABLE_NAME_ATTR_MSG)
  ELSE IF Len(using) = 0 THEN Raise("ValueError", EMPTY_USING_MSG)
  ELSE LET table_name == model.table
           fields == model.model_fields
           fields_to_update == Excluding(fields, using)
           set_clause ==
             Join([i \in 1..Len(fields_to_update) |->
                     QualifiedAssign(table_name, fields_to_update[i])], CommaSep)
           where_conditions == WhereConditions(table_name, using)
       IN IF fields_to_update = <<>>
          THEN Raise("ValueError", NO_FIELDS_TO_UPDATE_MSG)
          ELSE Ok(Strip(<<"UPDATE", Space, table_name, Space, "SET", Space>>
                          \o set_clause
                          \o <<Space, "WHERE", Space>>
                          \o where_conditions))

\* ---- the WHERE filter of generate_select_query

\* str.lower() on one character of the filter alphabet.
LowerChar(c) ==
  CASE c = "A" -> "a" [] c = "C" -> "c" [] c = "D" -> "d" [] c = "E" -> "e"
    [] c = "L" -> "l" [] c = "O" -> "o" [] c = "P" -> "p" [] c = "R" -> "r"
    [] c = "S" -> "s" [] c = "T" -> "t" [] c = "X" -> "x"
    [] OTHER -> c

Lower(t) == [i \in 1..Len(t) |-> LowerChar(t[i])]

\* pattern in text: text has pattern as a contiguous run.
Contains(text, pattern) ==
  \E i \in 1..(Len(text) - Len(pattern) + 1) :
    SubSeq(text, i, i + Len(pattern) - 1) = pattern

dangerous_patterns ==
  << <<";">>, <<"-", "-">>, <<"/", "*">>, <<"*", "/">>, <<"x", "p", "_">>,
     <<"e", "x", "e", "c">>, <<"d", "r", "o", "p">>,
     <<"s", "e", "l", "e", "c", "t">> >>

\* The denylist test without the .lower() of line 142.
IsDangerous_case_sensitive(text) ==
  \E k \in 1..Len(dangerous_patterns) : Contains(text, dangerous_patterns[k])

IsDangerous(text) ==
  \E k \in 1..Len(dangerous_patterns) :
    Contains(Lower(text), Lower(dangerous_patterns[k]))

\* A filter argument: absent (None) or a string, possibly the empty one.
NoWhere == [present |-> FALSE, text |-> <<>>]

StrWhere(text) == [present |-> TRUE, text |-> text]

\* Python's truth value of `where`: None and "" are false.
Truthy(where) == where.present /\ where.text # <<>>

InvalidWhereMsg(where) == <<"Clause WHERE invalid : ">> \o where.text

\* generate_select_query testing `where is not None` where the code tests the
\* truth value of where (lines 140 and 147).
generate_select_query_not_none(model, where) ==
  IF ~model.has_table THEN Raise("AttributeError", MISSING_TABLE_NAME_ATTR_MSG)
  ELSE LET fields == model.model_fields
           columns == Join([i \in 1..Len(fields) |-> ColumnText(fields[i])], CommaSep)
           query == <<"SELECT", Space>> \o columns \o <<Space, "FROM", Space, model.table>>
       IN IF where.present /\ IsDangerous(where.text)
          THEN Raise("ValueError", InvalidWhereMsg(where))
          ELSE Ok(Strip(IF where.present
                        THEN query \o <<Space, "WHERE", Space>> \o where.text
                        ELSE query))

generate_select_query(model, where) ==
  IF ~model.has_table THEN Raise("AttributeError", MISSING_TABLE_NAME_ATTR_MSG)
  ELSE LET table_name == model.table
           fields == model.model_fields
           columns == Join([i \in 1..Len(fields) |-> ColumnText(fields[i])], CommaSep)
           query == <<"SELECT", Space>> \o columns \o <<Space, "FROM", Space, table_name>>
       IN IF Truthy(where) /\ IsDangerous(where.text)
          THEN Raise("ValueError", InvalidWhereMsg(where))
          ELSE Ok(Strip(IF Truthy(where)
                        THEN query \o <<Space, "WHERE", Space>> \o where.text
                        ELSE query))

\* ------------------------------------------------------------- WHERE inputs

PadChars == {" ", "a"}

Pads == UNION {[1..k -> PadChars] : k \in 0..MaxPad}

\* The filters tried are pad \o core \o pad: every denylisted substring in
\* lower, upper and mixed case, near misses of each, and harmless text.
WhereCores ==
  { <<>>,
    <<"a", "=", "1">>,
    <<";">>, <<"-", "-">>, <<"/", "*">>, <<"*", "/">>, <<"x", "p", "_">>,
    <<"e", "x", "e", "c">>, <<"d", "r", "o", "p">>,
    <<"s", "e", "l", "e", "c", "t">>,
    <<"D", "R", "O", "P">>, <<"d", "R", "o", "P">>, <<"E", "x", "e", "c">>,
    <<"X", "P", "_">>, <<"S", "e", "l", "e", "c", "T">>,
    <<"'", "d", "r", "o", "p", "'">>,
    <<"-">>, <<"-", " ", "-">>, <<"/">>, <<"*">>, <<"x", "p">>,
    <<"e", "x", "e">>, <<"d", "r", "o">>, <<"d", "r", " ", "o", "p">>,
    <<"s", "e", "l", "e", "c">> }

WhereTexts == {p \o c \o q : p \in Pads, c \in WhereCores, q \in Pads}

Wheres == {NoWhere} \cup {StrWhere(t) : t \in WhereTexts}

\* ----------------------------------------------------------------- records

Values == {"v"}

\* A record instance: a value per declared field (the default where the field
\* was never set) and pydantic's model_fields_set.
Records(model) ==
  { [values |-> v, fields_set |-> s] :
      v \in [Range(model.model_fields) -> Values],
      s \in SUBSET Range(model.model_fields) }

NoRecord == [values |-> <<>>, fields_set |-> {}]

\* record.model_dump(exclude_unset=True)
model_dump(record) == [f \in record.fields_set |-> record.values[f]]

\* The dump delete_all would bind without include=set(using): what the
\* singular delete binds (line 104).
model_dump_include_ignored(record, using) == model_dump(record)

\* record.model_dump(exclude_unset=True, include=set(using))
model_dump_include(record, using) ==
  [f \in record.fields_set \cap Range(using) |-> record.values[f]]

\* ----------------------------------------------------- the facade's inputs

\* Records per call of a plural write.
MaxRecords == 2

\* The classes the facade is driven with: the two of tests/models.py on the
\* first two columns of simple_table, and a class of one column.
SimpleTable == MkModel("plain", TRUE, <<"id", "name">>)

NoTableNameModel == MkModel("plain", FALSE, <<"id", "name">>)

NameTable == MkModel("plain", TRUE, <<"name">>)

FacadeModels == {SimpleTable, NoTableNameModel, NameTable}

FacadeUsings == SeqsNoDup({"id", "name", GhostField}, MaxUsing)

\* An element of a list of records: the record and the class it is of.
Instances ==
  UNION { { [type |-> m, values |-> r.values, fields_set |-> r.fields_set] :
              r \in Records(m) } : m \in FacadeModels }

RecordLists == UNION {[1..n -> Instances] : n \in 0..MaxRecords}

\* Rows of the table a read is run on.
MaxRows == 2

\* chunksize of select_in_batches.
MaxChunk == 2

\* The filters the reads are called with: none, the empty one, a condition,
\* whitespace only, and a denylisted one.
FacadeWheres ==
  { NoWhere, StrWhere(<<>>), StrWhere(<<"a", "=", "1">>), StrWhere(<<" ">>),
    StrWhere(<<";">>) }

ColumnValues == {"v", "w"}

\* A row of the table behind a class: a value per column, in column order,
\* and whether the row satisfies the condition of the caller's filter.
Rows(model) ==
  { [cols |-> c, matches |-> b] :
      c \in [1..Len(model.model_fields) -> ColumnValues], b \in BOOLEAN }

Tables(model) == UNION {[1..n -> Rows(model)] : n \in 0..MaxRows}

Chunksizes == 1..MaxChunk

\* Rows of the table select_in_batches is run on.
MaxBatchRows == 3

\* The rows of those tables: the first column holds the same value in all of
\* them, so that tables of MaxBatchRows rows stay few.
BatchRows(model) == {row \in Rows(model) : row.cols[1] = "v"}

BatchTables(model) == UNION {[1..n -> BatchRows(model)] : n \in 0..MaxBatchRows}

\* ------------------------------------------------------------- the backend

Event(ev) == [ev |-> ev, sql |-> <<>>, values |-> <<>>]

ExecuteEvent(query, values) == [ev |-> "execute", sql |-> query, values |-> values]

ExecuteManyEvent(query, values) ==
  [ev |-> "executemany", sql |-> query, values |-> values]

\* The errors the driver raises on a live connection, and the one it raises
\* on a connection that was closed.
BackendErrors ==
  { Raise("IntegrityError", <<"ORA-00001">>),
    Raise("OperationalError", <<"ORA-03113">>) }

NotConnected == Raise("InterfaceError", <<"DPY-1001">>)

\* What the driver does with one call of the facade: every call succeeds, or
\* the call named by `at` raises `error`.
Succeeds == [at |-> "none", error |-> Ok(<<>>)]

Fails(at, error) == [at |-> at, error |-> error]

Outcomes ==
  {Succeeds} \cup {Fails(at, e) : at \in {"execute", "commit"}, e \in BackendErrors}

\* A read fails in execute or in the fetch.
ReadOutcomes ==
  {Succeeds} \cup {Fails(at, e) : at \in {"execute", "fetch"}, e \in BackendErrors}

\* select_in_batches fetches repeatedly: "refetch" is a fetchmany after the
\* first one raising.
BatchOutcomes ==
  ReadOutcomes \cup {Fails("refetch", e) : e \in BackendErrors}

\* What the backend answers to a statement it cannot parse.
SyntaxError == Raise("DatabaseError", <<"ORA-00936">>)

\* A SELECT left ending in WHERE by a filter of whitespace only.
Malformed(sql) == sql # <<>> /\ sql[Len(sql)] = "WHERE"

\* The backend parses the statement in execute.
Parsed(sql, outcome) ==
  IF Malformed(sql) /\ outcome.at \notin {"cursor", "execute"}
  THEN Fails("execute", SyntaxError)
  ELSE outcome

\* The rows the backend returns for a SELECT: those satisfying its WHERE
\* condition when it has one, every row otherwise, in table order.
ResultSet(sql, table) ==
  IF \E i \in 1..Len(sql) : sql[i] = "WHERE"
  THEN SelectSeq(table, LAMBDA row : row.matches)
  ELSE table

\* The facade after _connect: self.connection is open (the engine wraps it and
\* stays usable after dispose(), so the connection alone decides what a later
\* call meets).
Connected == [connection |-> "open"]

Closed == [connection |-> "closed"]

\* A call that goes through Session(self.engine) on a closed connection fails
\* in session.execute; one that goes through self.connection.cursor() fails
\* in cursor().
SessionOutcomes(outcomes) ==
  IF conn.connection = "open" THEN outcomes
  ELSE {Fails("execute", NotConnected)}

CursorOutcomes(outcomes) ==
  IF conn.connection = "open" THEN outcomes
  ELSE {Fails("cursor", NotConnected)}

\* OracleHelper._execute: the session scope, the try and its except branch.
\* Yields the result the caller sees and the calls made on the backend.
_execute(query, values, outcome) ==
  LET opened == <<Event("session_open"), ExecuteEvent(query, values)>>
  IN IF outcome.at = "none"
     THEN [result |-> Ok(<<>>),
           log |-> opened \o <<Event("commit"), Event("session_close")>>]
     ELSE IF outcome.at = "execute"
     THEN [result |-> outcome.error,
           log |-> opened \o <<Event("rollback"), Event("session_close")>>]
     ELSE [result |-> outcome.error,
           log |-> opened \o <<Event("commit"), Event("rollback"), Event("session_close")>>]

\* A singular write that enters the session scope before it looks at the
\* generated statement.
SingularWrite_session_first(query, values, outcome) ==
  IF query.kind # "ok"
  THEN [result |-> query, log |-> <<Event("session_open"), Event("session_close")>>]
  ELSE _execute(query.text, values, outcome)

\* A singular write: the statement is generated first; when that raises, the
\* error propagates and _execute is never entered.
SingularWrite(query, values, outcome) ==
  IF query.kind # "ok" THEN [result |-> query, log |-> <<>>]
  ELSE _execute(query.text, values, outcome)

\* _executemany with an except branch that does not roll back (line 198 left
\* out).
_executemany_no_rollback(query, values, outcome) ==
  LET opened == <<Event("cursor_open"), ExecuteManyEvent(query, values)>>
  IN IF outcome.at = "cursor"
     THEN [result |-> outcome.error, log |-> <<Event("cursor_refused")>>]
     ELSE IF outcome.at = "none"
     THEN [result |-> Ok(<<>>),
           log |-> opened \o <<Event("commit"), Event("cursor_close")>>]
     ELSE IF outcome.at = "execute"
     THEN [result |-> outcome.error, log |-> opened \o <<Event("cursor_close")>>]
     ELSE [result |-> outcome.error,
           log |-> opened \o <<Event("commit"), Event("cursor_close")>>]

\* _executemany running the statement once per value map on the cursor, where
\* the code hands the whole list to cursor.executemany (line 194).
_executemany_per_record(query, values, outcome) ==
  [ result |-> IF outcome.at = "none" THEN Ok(<<>>) ELSE outcome.error,
    log |-> <<Event("cursor_open")>>
              \o [i \in 1..Len(values) |-> ExecuteEvent(query, values[i])]
              \o <<Event(IF outcome.at = "none" THEN "commit" ELSE "rollback"),
                   Event("cursor_close")>> ]

\* OracleHelper._executemany: the cursor scope on self.connection, the try and
\* its except branch. cursor() is called outside the try.
_executemany(query, values, outcome) ==
  LET opened == <<Event("cursor_open"), ExecuteManyEvent(query, values)>>
  IN IF outcome.at = "cursor"
     THEN [result |-> outcome.error, log |-> <<Event("cursor_refused")>>]
     ELSE IF outcome.at = "none"
     THEN [result |-> Ok(<<>>),
           log |-> opened \o <<Event("commit"), Event("cursor_close")>>]
     ELSE IF outcome.at = "execute"
     THEN [result |-> outcome.error,
           log |-> opened \o <<Event("rollback"), Event("cursor_close")>>]
     ELSE [result |-> outcome.error,
           log |-> opened \o <<Event("commit"), Event("rollback"), Event("cursor_close")>>]

\* A plural write on a non-empty list: the statement is generated, then the
\* value maps are handed to _executemany.
PluralWrite(query, values, outcome) ==
  IF query.kind # "ok" THEN [result |-> query, log |-> <<>>]
  ELSE _executemany(query.text, values, outcome)

\* The empty list handed on to _executemany where the code returns at once
\* (lines 82-84).
NothingToDo_empty_batch == _executemany(<<>>, <<>>, Succeeds)

\* `if not records: logger.warning(...); return None`
NothingToDo == [result |-> Ok(<<>>), log |-> <<>>]

\* What a read returns: None, a record, a list of records.
NoneFound == [kind |-> "none", text |-> <<>>]

OneRecord(record) == [kind |-> "record", text |-> record]

RecordList(records) == [kind |-> "records", text |-> records]

\* The row's values paired with the declared fields from the last column
\* backwards.
RowRecord_reversed(model, row) ==
  LET fields == model.model_fields
      n == Len(fields)
  IN [ values |-> [f \in {fields[i] : i \in 1..n} |->
                     row.cols[n + 1 - (CHOOSE i \in 1..n : fields[i] = f)]],
       fields_set |-> {fields[i] : i \in 1..n} ]

\* model(**dict(zip(column_names, row))): the i-th column value under the
\* i-th declared field, as far as both reach; every field given is set.
RowRecord(model, row) ==
  LET fields == model.model_fields
      n == IF Len(fields) <= Len(row.cols) THEN Len(fields) ELSE Len(row.cols)
      given == {fields[i] : i \in 1..n}
  IN [ values |-> [f \in given |-> row.cols[CHOOSE i \in 1..n : fields[i] = f]],
       fields_set |-> given ]

\* select_one treating an empty result as an error, as Result.one() does:
\* it raises inside the try, and the except branch rolls back.
SelectOne_one(model, query, outcome, table) ==
  LET opened == <<Event("session_open"), ExecuteEvent(query, <<>>)>>
      row == ResultSet(query, table)
  IN IF outcome.at = "execute"
     THEN [result |-> outcome.error,
           log |-> opened \o <<Event("rollback"), Event("session_close")>>]
     ELSE IF outcome.at = "fetch" \/ row = <<>>
     THEN [result |-> IF outcome.at = "fetch" THEN outcome.error
                      ELSE Raise("NoResultFound", <<"No row was found">>),
           log |-> opened
                     \o <<Event("fetchone"), Event("rollback"), Event("session_close")>>]
     ELSE [result |-> OneRecord(RowRecord(model, row[1])),
           log |-> opened \o <<Event("fetchone"), Event("session_close")>>]

\* select_one from the session scope on: execute, fetchone, the record of the
\* row or None, and the except branch.
SelectOne(model, query, outcome, table) ==
  LET opened == <<Event("session_open"), ExecuteEvent(query, <<>>)>>
      row == ResultSet(query, table)
  IN IF outcome.at = "execute"
     THEN [result |-> outcome.error,
           log |-> opened \o <<Event("rollback"), Event("session_close")>>]
     ELSE IF outcome.at = "fetch"
     THEN [result |-> outcome.error,
           log |-> opened
                     \o <<Event("fetchone"), Event("rollback"), Event("session_close")>>]
     ELSE [result |-> IF row # <<>> THEN OneRecord(RowRecord(model, row[1]))
                      ELSE NoneFound,
           log |-> opened \o <<Event("fetchone"), Event("session_close")>>]

\* select_all with an except branch that closes the session and raises a
\* DatabaseError of its own, where the code rolls back and re-raises e
\* (lines 152-155).
SelectAll_wrapping(model, query, outcome, table) ==
  LET opened == <<Event("session_open"), ExecuteEvent(query, <<>>)>>
      rows == ResultSet(query, table)
  IN IF outcome.at \in {"execute", "fetch"}
     THEN [result |-> Raise("DatabaseError", <<"select failed">>),
           log |-> opened \o <<Event("session_close")>>]
     ELSE [result |-> RecordList([i \in 1..Len(rows) |-> RowRecord(model, rows[i])]),
           log |-> opened \o <<Event("fetchall"), Event("session_close")>>]

\* select_all from the session scope on: execute, fetchall, the records of
\* the rows or [], and the except branch.
SelectAll(model, query, outcome, table) ==
  LET opened == <<Event("session_open"), ExecuteEvent(query, <<>>)>>
      rows == ResultSet(query, table)
  IN IF outcome.at = "execute"
     THEN [result |-> outcome.error,
           log |-> opened \o <<Event("rollback"), Event("session_close")>>]
     ELSE IF outcome.at = "fetch"
     THEN [result |-> outcome.error,
           log |-> opened
                     \o <<Event("fetchall"), Event("rollback"), Event("session_close")>>]
     ELSE [result |-> IF rows # <<>>
                      THEN RecordList([i \in 1..Len(rows) |-> RowRecord(model, rows[i])])
                      ELSE RecordList(<<>>),
           log |-> opened \o <<Event("fetchall"), Event("session_close")>>]

\* The generator select_in_batches returns: whether its body has been
\* entered, and the rows its cursor has still to fetch.
NoGen == [started |-> FALSE, rest |-> <<>>]

GeneratorObject == [kind |-> "generator", text |-> <<>>]

StopIteration == [kind |-> "StopIteration", text |-> <<>>]

\* The loop fetching with fetchall() where the code calls
\* fetchmany(chunksize): the first chunk is everything that is left.
FetchMany_all(model, rest, chunksize, raises, error) ==
  IF raises
  THEN [result |-> error,
        log |-> <<Event("fetchmany"), Event("rollback"), Event("cursor_close")>>,
        gen |-> [started |-> TRUE, rest |-> <<>>]]
  ELSE IF rest = <<>>
  THEN [result |-> StopIteration,
        log |-> <<Event("fetchmany"), Event("cursor_close")>>,
        gen |-> [started |-> TRUE, rest |-> <<>>]]
  ELSE [result |-> RecordList([i \in 1..Len(rest) |-> RowRecord(model, rest[i])]),
        log |-> <<Event("fetchmany")>>,
        gen |-> [started |-> TRUE, rest |-> <<>>]]

\* One pass of the `while True` loop: fetchmany, then the break, the yield of
\* the chunk's records, or the except branch.
FetchMany(model, rest, chunksize, raises, error) ==
  IF raises
  THEN [result |-> error,
        log |-> <<Event("fetchmany"), Event("rollback"), Event("cursor_close")>>,
        gen |-> [started |-> TRUE, rest |-> <<>>]]
  ELSE IF rest = <<>>
  THEN [result |-> StopIteration,
        log |-> <<Event("fetchmany"), Event("cursor_close")>>,
        gen |-> [started |-> TRUE, rest |-> <<>>]]
  ELSE LET k == IF chunksize <= Len(rest) THEN chunksize ELSE Len(rest)
       IN [result |-> RecordList([i \in 1..k |-> RowRecord(model, rest[i])]),
           log |-> <<Event("fetchmany")>>,
           gen |-> [started |-> TRUE, rest |-> SubSeq(rest, k + 1, Len(rest))]]

\* The first next() on the generator: the body runs from its first line to
\* the first yield, the end or an error.
StartBatches(model, where, chunksize, outcome, table) ==
  LET query == generate_select_query(model, where)
  IN IF query.kind # "ok" THEN [result |-> query, log |-> <<>>, gen |-> NoGen]
     ELSE IF outcome.at = "cursor"
     THEN [result |-> outcome.error, log |-> <<Event("cursor_refused")>>, gen |-> NoGen]
     ELSE LET opened == <<Event("cursor_open"), ExecuteEvent(query.text, <<>>)>>
          IN IF outcome.at = "execute"
             THEN [result |-> outcome.error,
                   log |-> opened \o <<Event("rollback"), Event("cursor_close")>>,
                   gen |-> [started |-> TRUE, rest |-> <<>>]]
             ELSE LET first == FetchMany(model, ResultSet(query.text, table), chunksize,
                                         outcome.at = "fetch", outcome.error)
                  IN [first EXCEPT !.log = opened \o @]

\* A later next(): the body resumes after the yield.
ResumeBatches(model, chunksize, outcome, generator) ==
  FetchMany(model, generator.rest, chunksize, outcome.at = "refetch", outcome.error)

\* clean_up fails in one of its three calls or in none.
CleanUpOutcomes ==
  {Succeeds}
    \cup {Fails(at, e) : at \in {"dispose", "is_healthy", "close"}, e \in BackendErrors}

\* clean_up with an except branch that re-raises, as the except branches of
\* the other methods do.
CleanUp_reraising(connection, outcome) ==
  IF outcome.at = "none"
  THEN [result |-> Ok(<<>>),
        log |-> <<Event("dispose"), Event("is_healthy"), Event("close")>>,
        conn |-> Closed]
  ELSE [result |-> outcome.error, log |-> <<Event("dispose")>>, conn |-> connection]

\* OracleHelper.clean_up: dispose, the health check, close, and the except
\* branch that logs the error and falls off the end of the method.
CleanUp(connection, outcome) ==
  LET disposed == <<Event("dispose")>>
      checked == disposed \o <<Event("is_healthy")>>
  IN IF outcome.at = "dispose"
     THEN [result |-> Ok(<<>>), log |-> disposed, conn |-> connection]
     ELSE IF outcome.at = "is_healthy" \/ connection.connection # "open"
     THEN [result |-> Ok(<<>>), log |-> checked, conn |-> connection]
     ELSE IF outcome.at = "close"
     THEN [result |-> Ok(<<>>), log |-> checked \o <<Event("close")>>,
           conn |-> connection]
     ELSE [result |-> Ok(<<>>), log |-> checked \o <<Event("close")>>,
           conn |-> Closed]

\* ------------------------------------------------------------- the table

\* Rows simple_table holds at most.
MaxTableRows == 2

\* class Child(Parent): the first field, id, is declared by Parent and name
\* by Child itself; both are stored in simple_table.
ChildTable == MkModel("inherits", TRUE, <<"id", "name">>)

DataModels == {SimpleTable, ChildTable}

TableColumns == {"id", "name"}

\* What a column holds when a statement stored no value in it.
Null == "NULL"

\* Every field of the classes of tests/models.py is required: a record has
\* all of its fields set.
DataRecords(model) ==
  { [values |-> v, fields_set |-> Range(model.model_fields)] :
      v \in [Range(model.model_fields) -> ColumnValues] }

\* The key lists of declared fields: using=["id"] of the tests, and the others.
DataUsings == {<<"id">>, <<"name">>, <<"id", "name">>}

\* The lists a plural write is called with: records of SimpleTable that
\* differ in id only, so that the lists of MaxRecords records stay few.
DataLists ==
  UNION { [1..n -> { [type |-> SimpleTable, values |-> r.values,
                      fields_set |-> r.fields_set] :
                       r \in {d \in DataRecords(SimpleTable) : d.values["name"] = "v"} }] :
            n \in 0..MaxRecords }

\* A column name spelled one character per atom, as a filter spells it.
Spelled(column) == IF column = "id" THEN <<"i", "d">> ELSE <<"n", "a", "m", "e">>

\* where="id = 'v'": a filter on one column.
KeyFilter(column, value) ==
  StrWhere(Spelled(column) \o <<Space, "=", Space, "'", value, "'">>)

DataWheres ==
  {NoWhere} \cup {KeyFilter(c, v) : c \in TableColumns, v \in ColumnValues}

\* The driver answers every call, or the commit is lost with the connection.
DataOutcomes == {Succeeds, Fails("commit", Raise("OperationalError", <<"ORA-03113">>))}

DataReadOutcomes == {Succeeds, Fails("fetch", Raise("OperationalError", <<"ORA-03113">>))}

\* ---- how the backend reads a statement

\* The first place of token in text, 0 when it has none.
Position(text, token) ==
  LET at == {i \in 1..Len(text) : text[i] = token}
  IN IF at = {} THEN 0 ELSE CHOOSE i \in at : \A j \in at : i <= j

TextAfter(text, token) ==
  LET p == Position(text, token)
  IN IF p = 0 THEN <<>> ELSE SubSeq(text, p + 1, Len(text))

TextBefore(text, token) ==
  LET p == Position(text, token)
  IN IF p = 0 THEN text ELSE SubSeq(text, 1, p - 1)

\* INSERT, MERGE, DELETE, UPDATE or SELECT.
Keyword(sql) == LET t == LStrip(sql) IN IF t = <<>> THEN "" ELSE Head(t)

\* The names of a list "a, b".
ListedNames(text) == SelectSeq(text, LAMBDA a : ~IsSpace(a) /\ a # ",")

\* The names of the placeholders :a of text, in order.
BindNames(text) ==
  LET marks == SelectSeq([i \in 1..Len(text) |-> i],
                         LAMBDA i : text[i] = ":" /\ i < Len(text))
  IN [k \in 1..Len(marks) |-> text[marks[k] + 1]]

Placeholders(sql) == Range(BindNames(sql))

\* The pairs of "t.column = :bind" and "column = :bind" in text.
Comparisons(text) ==
  { [column |-> text[i - 4], bind |-> text[i + 1]] :
      i \in {j \in 5..(Len(text) - 1) : text[j] = ":"} }

\* The pairs of "t.column = src.alias" of a MERGE's ON condition, the alias
\* replaced by the placeholder the USING subquery selects under it
\* (":bind as alias").
MergeComparisons(sql) ==
  LET on == TextBefore(TextAfter(sql, "ON"), "WHEN")
      source == TextBefore(TextAfter(sql, "USING"), "FROM")
      selected == { [alias |-> source[i + 5], bind |-> source[i + 1]] :
                      i \in {j \in 1..(Len(source) - 5) : source[j] = ":"} }
  IN { [column |-> on[i - 4],
        bind |-> (CHOOSE s \in selected : s.alias = on[i + 2]).bind] :
         i \in {j \in 5..(Len(on) - 2) : on[j] = "src"} }

\* "(a, b) VALUES (:a, :b)": the columns and the placeholders, paired by
\* position.
InsertedRow(sql, values) ==
  LET clause == TextAfter(sql, "INSERT")
      columns == ListedNames(TextBefore(TextAfter(clause, "("), ")"))
      binds == BindNames(TextAfter(clause, "VALUES"))
  IN [c \in TableColumns |->
        IF \E i \in 1..Len(columns) : columns[i] = c
        THEN values[binds[CHOOSE i \in 1..Len(columns) : columns[i] = c]]
        ELSE Null]

\* SQL's `=`: NULL is equal to nothing.
SqlEquals(a, b) == a # Null /\ b # Null /\ a = b

Holds(row, comparisons, values) ==
  \A c \in comparisons : SqlEquals(row[c.column], values[c.bind])

Assigned(row, assignments, values) ==
  [c \in TableColumns |->
     IF \E a \in assignments : a.column = c
     THEN values[(CHOOSE a \in assignments : a.column = c).bind]
     ELSE row[c]]

\* A statement the backend refuses to parse: a SELECT ending in WHERE, a SET
\* clause without an assignment, an INSERT without a column.
Rejected(sql) ==
  \/ Malformed(sql)
  \/ /\ Keyword(sql) = "MERGE"
     /\ Comparisons(TextBefore(TextAfter(sql, "SET"), "WHEN")) = {}
  \/ /\ Keyword(sql) = "UPDATE"
     /\ Comparisons(TextBefore(TextAfter(sql, "SET"), "WHERE")) = {}
  \/ /\ Keyword(sql) = "INSERT"
     /\ ListedNames(TextBefore(TextAfter(sql, "("), ")")) = <<>>

\* session.execute(text(query), values): a placeholder without a value is an
\* error, a value without a placeholder is ignored.
Executed(sql, values, drawn) ==
  IF drawn.at = "execute" THEN drawn
  ELSE IF Rejected(sql) THEN Fails("execute", SyntaxError)
  ELSE IF ~(Placeholders(sql) \subseteq DOMAIN values)
  THEN Fails("execute", Raise("StatementError", <<"A value is required for bind parameter">>))
  ELSE drawn

\* cursor.executemany(query, values): every value map binds the statement's
\* placeholders and nothing else.
ExecutedMany(sql, values, drawn) ==
  IF drawn.at \in {"cursor", "execute"} THEN drawn
  ELSE IF Rejected(sql) THEN Fails("execute", SyntaxError)
  ELSE IF \E i \in 1..Len(values) : DOMAIN values[i] # Placeholders(sql)
  THEN Fails("execute", Raise("DatabaseError", <<"DPY-4008">>))
  ELSE drawn

\* The rows after the statement ran with one value map.
Run(rows, sql, values) ==
  CASE Keyword(sql) = "INSERT" -> Append(rows, InsertedRow(sql, values))
    [] Keyword(sql) = "DELETE" ->
         SelectSeq(rows, LAMBDA row :
           ~Holds(row, Comparisons(TextAfter(sql, "WHERE")), values))
    [] Keyword(sql) = "UPDATE" ->
         LET set == Comparisons(TextBefore(TextAfter(sql, "SET"), "WHERE"))
             where == Comparisons(TextAfter(sql, "WHERE"))
         IN [i \in 1..Len(rows) |->
               IF Holds(rows[i], where, values)
               THEN Assigned(rows[i], set, values) ELSE rows[i]]
    [] Keyword(sql) = "MERGE" ->
         LET on == MergeComparisons(sql)
             set == Comparisons(TextBefore(TextAfter(sql, "SET"), "WHEN"))
         IN IF \E i \in 1..Len(rows) : Holds(rows[i], on, values)
            THEN [i \in 1..Len(rows) |->
                    IF Holds(rows[i], on, values)
                    THEN Assigned(rows[i], set, values) ELSE rows[i]]
            ELSE Append(rows, InsertedRow(sql, values))
    [] OTHER -> rows

RECURSIVE RunAll(_, _, _)

\* executemany: the statement runs once per value map, in list order.
RunAll(rows, sql, maps) ==
  IF maps = <<>> THEN rows
  ELSE RunAll(Run(rows, sql, Head(maps)), sql, Tail(maps))

RECURSIVE Transaction(_, _)

\* The rows after the statements the call handed to the backend.
Transaction(rows, events) ==
  IF events = <<>> THEN rows
  ELSE LET e == Head(events)
           next == IF e.ev = "execute" THEN Run(rows, e.sql, e.values)
                   ELSE IF e.ev = "executemany" THEN RunAll(rows, e.sql, e.values)
                   ELSE rows
       IN Transaction(next, Tail(events))

\* The table after a call: its statements took effect when the call
\* committed and did not roll back.
Committed(rows, events) ==
  IF /\ \E i \in 1..Len(events) : events[i].ev = "commit"
     /\ ~\E i \in 1..Len(events) : events[i].ev = "rollback"
  THEN Transaction(rows, events)
  ELSE rows

\* Whether a row satisfies the filter of a SELECT: "column = 'value'".
Satisfies(row, condition) ==
  \E c \in TableColumns, v \in ColumnValues :
    condition = KeyFilter(c, v).text /\ SqlEquals(row[c], v)

\* The table as a SELECT sees it: of every row the columns the statement
\* lists, in its order, and whether the row satisfies its WHERE condition.
Selected(sql, rows) ==
  LET columns == ListedNames(TextBefore(TextAfter(sql, "SELECT"), "FROM"))
      condition == Strip(TextAfter(sql, "WHERE"))
  IN [i \in 1..Len(rows) |->
        [cols |-> [k \in 1..Len(columns) |-> rows[i][columns[k]]],
         matches |-> Satisfies(rows[i], condition)]]

\* ------------------------------------------------------------ state machine

Call(op, model, using, where, record) ==
  [op |-> op, model |-> model, using |-> using, where |-> where, record |-> record,
   records |-> <<>>, chunksize |-> 0]

NoCall == Call("none", MkModel("plain", FALSE, <<>>), <<>>, NoWhere, NoRecord)

\* A plural write's call: the class is the first record's, when there is one.
CallAll(op, using, records) ==
  [ Call(op, IF records = <<>> THEN NoCall.model ELSE records[1].type,
         using, NoWhere, NoRecord)
    EXCEPT !.records = records ]

\* select_in_batches(model, where, chunksize)
CallBatches(model, where, chunksize) ==
  [ Call("select_in_batches", model, <<>>, where, NoRecord)
    EXCEPT !.chunksize = chunksize ]

\* What the driver is going to do with the call in progress.
Driver(outcome, table) == [outcome |-> outcome, table |-> table]

Quiet == Driver(Succeeds, <<>>)

Init ==
  /\ pc = "idle"
  /\ call = NoCall
  /\ result = Ok(<<>>)
  /\ log = <<>>
  /\ conn = Connected
  /\ backend = Quiet
  /\ gen = NoGen
  /\ db = <<>>
  /\ previous = NoCall

GenerateInsert ==
  /\ pc = "idle"
  /\ \E model \in Models :
       /\ call' = Call("generate_insert_query", model, <<>>, NoWhere, NoRecord)
       /\ result' = generate_insert_query(model)
  /\ pc' = "done"
  /\ log' = <<>>
  /\ UNCHANGED <<conn, backend, gen>>
  /\ UNCHANGED <<db, previous>>

GenerateUpsert ==
  /\ pc = "idle"
  /\ \E model \in PlainModels, using \in Usings :
       /\ call' = Call("generate_upsert_query", model, using, NoWhere, NoRecord)
       /\ result' = generate_upsert_query(model, using)
  /\ pc' = "done"
  /\ log' = <<>>
  /\ UNCHANGED <<conn, backend, gen>>
  /\ UNCHANGED <<db, previous>>

GenerateDelete ==
  /\ pc = "idle"
  /\ \E model \in PlainModels, using \in Usings :
       /\ call' = Call("generate_delete_query", model, using, NoWhere, NoRecord)
       /\ result' = generate_delete_query(model, using)
  /\ pc' = "done"
  /\ log' = <<>>
  /\ UNCHANGED <<conn, backend, gen>>
  /\ UNCHANGED <<db, previous>>

GenerateUpdate ==
  /\ pc = "idle"
  /\ \E model \in PlainModels, using \in Usings :
       /\ call' = Call("generate_update_query", model, using, NoWhere, NoRecord)
       /\ result' = generate_update_query(model, using)
  /\ pc' = "done"
  /\ log' = <<>>
  /\ UNCHANGED <<conn, backend, gen>>
  /\ UNCHANGED <<db, previous>>

GenerateSelect ==
  /\ pc = "idle"
  /\ \E model \in PlainModels, where \in Wheres :
       /\ call' = Call("generate_select_query", model, <<>>, where, NoRecord)
       /\ result' = generate_select_query(model, where)
  /\ pc' = "done"
  /\ log' = <<>>
  /\ UNCHANGED <<conn, backend, gen>>
  /\ UNCHANGED <<db, previous>>

insert ==
  /\ pc = "idle"
  /\ \E model \in FacadeModels, outcome \in SessionOutcomes(Outcomes) :
       \E record \in Records(model) :
         LET query == generate_insert_query(model)
             values == model_dump(record)
             done == SingularWrite(query, values, outcome)
         IN /\ call' = Call("insert", model, <<>>, NoWhere, record)
            /\ result' = done.result
            /\ log' = done.log
            /\ backend' = Driver(outcome, <<>>)
  /\ pc' = "done"
  /\ UNCHANGED <<conn, gen>>
  /\ UNCHANGED <<db, previous>>

upsert ==
  /\ pc = "idle"
  /\ \E model \in FacadeModels, using \in FacadeUsings,
        outcome \in SessionOutcomes(Outcomes) :
       \E record \in Records(model) :
         LET query == generate_upsert_query(model, using)
             values == model_dump(record)
             done == SingularWrite(query, values, outcome)
         IN /\ call' = Call("upsert", model, using, NoWhere, record)
            /\ result' = done.result
            /\ log' = done.log
            /\ backend' = Driver(outcome, <<>>)
  /\ pc' = "done"
  /\ UNCHANGED <<conn, gen>>
  /\ UNCHANGED <<db, previous>>

delete ==
  /\ pc = "idle"
  /\ \E model \in FacadeModels, using \in FacadeUsings,
        outcome \in SessionOutcomes(Outcomes) :
       \E record \in Records(model) :
         LET query == generate_delete_query(model, using)
             values == model_dump(record)
             done == SingularWrite(query, values, outcome)
         IN /\ call' = Call("delete", model, using, NoWhere, record)
            /\ result' = done.result
            /\ log' = done.log
            /\ backend' = Driver(outcome, <<>>)
  /\ pc' = "done"
  /\ UNCHANGED <<conn, gen>>
  /\ UNCHANGED <<db, previous>>

update ==
  /\ pc = "idle"
  /\ \E model \in FacadeModels, using \in FacadeUsings,
        outcome \in SessionOutcomes(Outcomes) :
       \E record \in Records(model) :
         LET query == generate_update_query(model, using)
             values == model_dump(record)
             done == SingularWrite(query, values, outcome)
         IN /\ call' = Call("update", model, using, NoWhere, record)
            /\ result' = done.result
            /\ log' = done.log
            /\ backend' = Driver(outcome, <<>>)
  /\ pc' = "done"
  /\ UNCHANGED <<conn, gen>>
  /\ UNCHANGED <<db, previous>>

insert_all ==
  /\ pc = "idle"
  /\ \E records \in RecordLists, outcome \in CursorOutcomes(Outcomes) :
       LET done == IF records = <<>> THEN NothingToDo
                   ELSE PluralWrite(
                          generate_insert_query(records[1].type),
                          [i \in 1..Len(records) |-> model_dump(records[i])],
                          outcome)
       IN /\ call' = CallAll("insert_all", <<>>, records)
          /\ result' = done.result
          /\ log' = done.log
          /\ backend' = Driver(outcome, <<>>)
  /\ pc' = "done"
  /\ UNCHANGED <<conn, gen>>
  /\ UNCHANGED <<db, previous>>

upsert_all ==
  /\ pc = "idle"
  /\ \E records \in RecordLists, using \in FacadeUsings,
        outcome \in CursorOutcomes(Outcomes) :
       LET done == IF records = <<>> THEN NothingToDo
                   ELSE PluralWrite(
                          generate_upsert_query(records[1].type, using),
                          [i \in 1..Len(records) |-> model_dump(records[i])],
                          outcome)
       IN /\ call' = CallAll("upsert_all", using, records)
          /\ result' = done.result
          /\ log' = done.log
          /\ backend' = Driver(outcome, <<>>)
  /\ pc' = "done"
  /\ UNCHANGED <<conn, gen>>
  /\ UNCHANGED <<db, previous>>

delete_all ==
  /\ pc = "idle"
  /\ \E records \in RecordLists, using \in FacadeUsings,
        outcome \in CursorOutcomes(Outcomes) :
       LET done == IF records = <<>> THEN NothingToDo
                   ELSE PluralWrite(
                          generate_delete_query(records[1].type, using),
                          [i \in 1..Len(records) |->
                             model_dump_include(records[i], using)],
                          outcome)
       IN /\ call' = CallAll("delete_all", using, records)
          /\ result' = done.result
          /\ log' = done.log
          /\ backend' = Driver(outcome, <<>>)
  /\ pc' = "done"
  /\ UNCHANGED <<conn, gen>>
  /\ UNCHANGED <<db, previous>>

update_all ==
  /\ pc = "idle"
  /\ \E records \in RecordLists, using \in FacadeUsings,
        outcome \in CursorOutcomes(Outcomes) :
       LET done == IF records = <<>> THEN NothingToDo
                   ELSE PluralWrite(
                          generate_update_query(records[1].type, using),
                          [i \in 1..Len(records) |-> model_dump(records[i])],
                          outcome)
       IN /\ call' = CallAll("update_all", using, records)
          /\ result' = done.result
          /\ log' = done.log
          /\ backend' = Driver(outcome, <<>>)
  /\ pc' = "done"
  /\ UNCHANGED <<conn, gen>>
  /\ UNCHANGED <<db, previous>>

select_one ==
  /\ pc = "idle"
  /\ \E model \in FacadeModels, where \in FacadeWheres :
       LET query == generate_select_query(model, where)
       IN /\ call' = Call("select_one", model, <<>>, where, NoRecord)
          /\ IF query.kind # "ok"
             THEN /\ result' = query
                  /\ log' = <<>>
                  /\ backend' = Quiet
             ELSE \E drawn \in SessionOutcomes(ReadOutcomes), table \in Tables(model) :
                    LET outcome == Parsed(query.text, drawn)
                        done == SelectOne(model, query.text, outcome, table)
                    IN /\ result' = done.result
                       /\ log' = done.log
                       /\ backend' = Driver(outcome, table)
  /\ pc' = "done"
  /\ UNCHANGED <<conn, gen>>
  /\ UNCHANGED <<db, previous>>

select_all ==
  /\ pc = "idle"
  /\ \E model \in FacadeModels, where \in FacadeWheres :
       LET query == generate_select_query(model, where)
       IN /\ call' = Call("select_all", model, <<>>, where, NoRecord)
          /\ IF query.kind # "ok"
             THEN /\ result' = query
                  /\ log' = <<>>
                  /\ backend' = Quiet
             ELSE \E drawn \in SessionOutcomes(ReadOutcomes), table \in Tables(model) :
                    LET outcome == Parsed(query.text, drawn)
                        done == SelectAll(model, query.text, outcome, table)
                    IN /\ result' = done.result
                       /\ log' = done.log
                       /\ backend' = Driver(outcome, table)
  /\ pc' = "done"
  /\ UNCHANGED <<conn, gen>>
  /\ UNCHANGED <<db, previous>>

\* select_in_batches as a plain function that generates its statement when
\* called: a model without table name or a denylisted filter raises at once.
select_in_batches_eager ==
  /\ pc = "idle"
  /\ \E model \in FacadeModels, where \in FacadeWheres, chunksize \in Chunksizes :
       LET query == generate_select_query(model, where)
       IN /\ call' = CallBatches(model, where, chunksize)
          /\ IF query.kind # "ok"
             THEN /\ backend' = Quiet
                  /\ result' = query
                  /\ pc' = "done"
             ELSE /\ \E drawn \in CursorOutcomes(BatchOutcomes),
                        table \in BatchTables(model) :
                       backend' = Driver(Parsed(query.text, drawn), table)
                  /\ result' = GeneratorObject
                  /\ pc' = "iterating"
  /\ log' = <<>>
  /\ gen' = NoGen
  /\ UNCHANGED conn
  /\ UNCHANGED <<db, previous>>

\* Calling a generator function runs none of its body: the caller gets the
\* generator. The table and what the driver will do are fixed here.
select_in_batches ==
  /\ pc = "idle"
  /\ \E model \in FacadeModels, where \in FacadeWheres, chunksize \in Chunksizes :
       LET query == generate_select_query(model, where)
       IN /\ call' = CallBatches(model, where, chunksize)
          /\ IF query.kind # "ok"
             THEN backend' = Quiet
             ELSE \E drawn \in CursorOutcomes(BatchOutcomes),
                     table \in BatchTables(model) :
                    backend' = Driver(Parsed(query.text, drawn), table)
  /\ result' = GeneratorObject
  /\ log' = <<>>
  /\ gen' = NoGen
  /\ pc' = "iterating"
  /\ UNCHANGED conn
  /\ UNCHANGED <<db, previous>>

\* next() on the generator.
next_batch ==
  /\ pc = "iterating"
  /\ LET step == IF gen.started
                 THEN ResumeBatches(call.model, call.chunksize, backend.outcome, gen)
                 ELSE StartBatches(call.model, call.where, call.chunksize,
                                   backend.outcome, backend.table)
     IN /\ result' = step.result
        /\ log' = log \o step.log
        /\ gen' = step.gen
        /\ pc' = IF step.result.kind = "records" THEN "iterating" ELSE "done"
  /\ UNCHANGED <<call, conn, backend>>
  /\ UNCHANGED <<db, previous>>

\* The generator dropped with its cursor left open: the `with` scope is not
\* left.
generator_close_leaking ==
  /\ pc = "iterating"
  /\ result' = Ok(<<>>)
  /\ log' = log
  /\ gen' = NoGen
  /\ pc' = "done"
  /\ UNCHANGED <<call, conn, backend>>
  /\ UNCHANGED <<db, previous>>

\* The caller drops the generator: GeneratorExit is raised at the yield, it
\* is no Exception, and the cursor scope is left.
generator_close ==
  /\ pc = "iterating"
  /\ result' = Ok(<<>>)
  /\ log' = log \o (IF gen.started THEN <<Event("cursor_close")>> ELSE <<>>)
  /\ gen' = NoGen
  /\ pc' = "done"
  /\ UNCHANGED <<call, conn, backend>>
  /\ UNCHANGED <<db, previous>>

clean_up ==
  /\ pc = "idle"
  /\ \E outcome \in CleanUpOutcomes :
       LET done == CleanUp(conn, outcome)
       IN /\ conn.connection # "open" => outcome.at # "close"
          /\ call' = Call("clean_up", NoCall.model, <<>>, NoWhere, NoRecord)
          /\ result' = done.result
          /\ log' = done.log
          /\ conn' = done.conn
          /\ backend' = Driver(outcome, <<>>)
  /\ pc' = "done"
  /\ UNCHANGED gen
  /\ UNCHANGED <<db, previous>>

\* The caller has the outcome of the call and makes its next one.
Return ==
  /\ pc = "done"
  /\ pc' = "idle"
  /\ call' = NoCall
  /\ result' = Ok(<<>>)
  /\ log' = <<>>
  /\ backend' = Quiet
  /\ gen' = NoGen
  /\ UNCHANGED conn
  /\ UNCHANGED <<db, previous>>

Next ==
  \/ GenerateInsert
  \/ GenerateUpsert
  \/ GenerateDelete
  \/ GenerateUpdate
  \/ GenerateSelect
  \/ insert
  \/ upsert
  \/ delete
  \/ update
  \/ Return

Spec == Init /\ [][Next]_vars

\* The facade driven by a caller: every operation of OracleHelper.
NextFacade ==
  \/ insert
  \/ upsert
  \/ delete
  \/ update
  \/ insert_all
  \/ upsert_all
  \/ delete_all
  \/ update_all
  \/ select_one
  \/ select_all
  \/ select_in_batches
  \/ next_batch
  \/ generator_close
  \/ clean_up
  \/ Return

SpecFacade == Init /\ [][NextFacade]_vars

\* ---- the operations run on the table. The caller works alone on
\* simple_table: each call meets the rows the last one left, and `previous`
\* is what the caller wrote last.

\* insert, upsert, delete and update: the statement is generated, the record
\* dumped, and _execute runs the statement in a transaction of its own.
WriteRow(op, model, using, record, query, drawn) ==
  LET values == model_dump(record)
      outcome == IF query.kind = "ok" THEN Executed(query.text, values, drawn)
                 ELSE drawn
      done == SingularWrite(query, values, outcome)
  IN /\ call' = Call(op, model, using, NoWhere, record)
     /\ result' = done.result
     /\ log' = done.log
     /\ backend' = Driver(drawn, db)
     /\ db' = Committed(db, done.log)

\* insert_all and delete_all: one statement, one value map per record, run by
\* _executemany in one transaction.
WriteRows(op, using, records, query, values, drawn) ==
  LET outcome == IF query.kind = "ok" THEN ExecutedMany(query.text, values, drawn)
                 ELSE drawn
      done == IF records = <<>> THEN NothingToDo
              ELSE PluralWrite(query, values, outcome)
  IN /\ call' = CallAll(op, using, records)
     /\ result' = done.result
     /\ log' = done.log
     /\ backend' = Driver(drawn, db)
     /\ db' = Committed(db, done.log)

insert_row ==
  /\ pc = "idle"
  /\ \E model \in DataModels, drawn \in SessionOutcomes(DataOutcomes) :
       \E record \in DataRecords(model) :
         WriteRow("insert", model, <<>>, record, generate_insert_query(model), drawn)
  /\ Len(db') <= MaxTableRows
  /\ pc' = "done"
  /\ UNCHANGED <<conn, gen, previous>>

upsert_row ==
  /\ pc = "idle"
  /\ \E model \in DataModels, using \in DataUsings,
        drawn \in SessionOutcomes(DataOutcomes) :
       \E record \in DataRecords(model) :
         WriteRow("upsert", model, using, record,
                  generate_upsert_query(model, using), drawn)
  /\ Len(db') <= MaxTableRows
  /\ pc' = "done"
  /\ UNCHANGED <<conn, gen, previous>>

delete_row ==
  /\ pc = "idle"
  /\ \E model \in DataModels, using \in DataUsings,
        drawn \in SessionOutcomes(DataOutcomes) :
       \E record \in DataRecords(model) :
         WriteRow("delete", model, using, record,
                  generate_delete_query(model, using), drawn)
  /\ pc' = "done"
  /\ UNCHANGED <<conn, gen, previous>>

update_row ==
  /\ pc = "idle"
  /\ \E model \in DataModels, using \in DataUsings,
        drawn \in SessionOutcomes(DataOutcomes) :
       \E record \in DataRecords(model) :
         WriteRow("update", model, using, record,
                  generate_update_query(model, using), drawn)
  /\ pc' = "done"
  /\ UNCHANGED <<conn, gen, previous>>

insert_rows ==
  /\ pc = "idle"
  /\ \E records \in DataLists, drawn \in CursorOutcomes(DataOutcomes) :
       WriteRows("insert_all", <<>>, records,
                 generate_insert_query(CallAll("insert_all", <<>>, records).model),
                 [i \in 1..Len(records) |-> model_dump(records[i])], drawn)
  /\ Len(db') <= MaxTableRows
  /\ pc' = "done"
  /\ UNCHANGED <<conn, gen, previous>>

delete_rows ==
  /\ pc = "idle"
  /\ \E records \in DataLists, using \in DataUsings,
        drawn \in CursorOutcomes(DataOutcomes) :
       WriteRows("delete_all", using, records,
                 generate_delete_query(CallAll("delete_all", using, records).model, using),
                 [i \in 1..Len(records) |-> model_dump_include(records[i], using)],
                 drawn)
  /\ pc' = "done"
  /\ UNCHANGED <<conn, gen, previous>>

\* select_one on the rows the writes left.
select_row ==
  /\ pc = "idle"
  /\ \E model \in DataModels, where \in DataWheres :
       LET query == generate_select_query(model, where)
       IN /\ call' = Call("select_one", model, <<>>, where, NoRecord)
          /\ IF query.kind # "ok"
             THEN /\ result' = query
                  /\ log' = <<>>
                  /\ backend' = Driver(Succeeds, db)
             ELSE \E drawn \in SessionOutcomes(DataReadOutcomes) :
                    LET done == SelectOne(model, query.text, Parsed(query.text, drawn),
                                          Selected(query.text, db))
                    IN /\ result' = done.result
                       /\ log' = done.log
                       /\ backend' = Driver(drawn, db)
  /\ pc' = "done"
  /\ UNCHANGED <<conn, gen, db, previous>>

\* The caller has the outcome of the call and goes on to its next one,
\* remembering the record or records it has just stored.
Continue ==
  /\ pc = "done"
  /\ previous' = IF result = Ok(<<>>) /\ call.op \in {"insert", "upsert", "insert_all"}
                 THEN call ELSE NoCall
  /\ pc' = "idle"
  /\ call' = NoCall
  /\ result' = Ok(<<>>)
  /\ log' = <<>>
  /\ backend' = Quiet
  /\ gen' = NoGen
  /\ UNCHANGED <<conn, db>>

\* The facade writing to and reading from one table.
NextData ==
  \/ insert_row
  \/ upsert_row
  \/ delete_row
  \/ update_row
  \/ insert_rows
  \/ delete_rows
  \/ select_row
  \/ Continue

SpecData == Init /\ [][NextData]_vars

\* ============================================================== properties

Done(op) == pc = "done" /\ call.op = op

\* ---- what the properties read off a text

\* The concatenation of parts with sep between neighbours.
Flatten(parts, sep) ==
  LET F[i \in 0..Len(parts)] ==
        IF i = 0 THEN <<>>
        ELSE IF i = 1 THEN parts[1]
        ELSE F[i - 1] \o sep \o parts[i]
  IN F[Len(parts)]

\* The elements of fields that are outside the set K, in the order of fields.
DeclaredMinus(fields, K) ==
  LET F[i \in 0..Len(fields)] ==
        IF i = 0 THEN <<>>
        ELSE IF fields[i] \in K THEN F[i - 1]
        ELSE Append(F[i - 1], fields[i])
  IN F[Len(fields)]

\* The elements of t at the indices of I, in order.
Pick(t, I) ==
  LET F[i \in 0..Len(t)] ==
        IF i = 0 THEN <<>>
        ELSE IF i \in I THEN Append(F[i - 1], t[i])
        ELSE F[i - 1]
  IN F[Len(t)]

NotSpace(a) == a \notin {" ", "\n", "\t"}

\* A text without its whitespace, as the upsert tests compare it.
Squeeze(t) == SelectSeq(t, NotSpace)

\* The least index >= from at which t holds atom; 0 when there is none.
Pos(t, atom, from) ==
  LET hits == {i \in from..Len(t) : t[i] = atom}
  IN IF hits = {} THEN 0 ELSE CHOOSE i \in hits : \A j \in hits : i <= j

\* The part of t after the first `open` and before the next `close`.
Between(t, open, close) ==
  LET i == Pos(t, open, 1)
      j == Pos(t, close, i + 1)
  IN IF i = 0 \/ j = 0 THEN <<>> ELSE SubSeq(t, i + 1, j - 1)

After(t, open) ==
  LET i == Pos(t, open, 1)
  IN IF i = 0 THEN <<>> ELSE SubSeq(t, i + 1, Len(t))

\* The atoms that directly follow an occurrence of mark.
AtomsAfter(t, mark) == Pick(t, {i \in 2..Len(t) : t[i - 1] = mark})

\* The atoms that directly precede an occurrence of mark.
AtomsBefore(t, mark) == Pick(t, {i \in 1..(Len(t) - 1) : t[i + 1] = mark})

\* The names written as qual.name.
QualifiedBy(t, qual) ==
  Pick(t, {i \in 3..Len(t) : t[i - 1] = "." /\ t[i - 2] = qual})

IsName(a) == a \in UsingNames \cup {ClassVarName, TableNameAttr}

NamesIn(t) == SelectSeq(t, IsName)

\* The set of named placeholders :name of a statement.
PlaceholderSet(t) == {t[i] : i \in {j \in 2..Len(t) : t[j - 1] = ":"}}

Declared(model) == Range(model.model_fields)

\* ---- C1

ExpectedInsert(table, fields) ==
  <<"INSERT", " ", "INTO", " ", table, " ", "(">>
    \o Flatten([i \in 1..Len(fields) |-> <<fields[i]>>], <<",", " ">>)
    \o <<")", " ", "VALUES", " ", "(">>
    \o Flatten([i \in 1..Len(fields) |-> <<":", fields[i]>>], <<",", " ">>)
    \o <<")">>

\* C1: for every model with a table name T and declared fields [f1..fn],
\* generate_insert_query returns exactly
\* "INSERT INTO T (f1, ..., fn) VALUES (:f1, ..., :fn)", columns and
\* placeholders in declared order.
C1_InsertExact ==
  (Done("generate_insert_query") /\ call.model.has_table)
    => result = Ok(ExpectedInsert(call.model.table, call.model.model_fields))

\* ---- C2

ExpectedAssign(table, f) == <<table, ".", f, " ", "=", " ", ":", f>>

ExpectedWhere(table, using) ==
  Flatten([i \in 1..Len(using) |-> ExpectedAssign(table, using[i])],
          <<" ", "AND", " ">>)

ExpectedUpdate(table, fields, using) ==
  LET rest == DeclaredMinus(fields, Range(using))
  IN <<"UPDATE", " ", table, " ", "SET", " ">>
       \o Flatten([i \in 1..Len(rest) |-> ExpectedAssign(table, rest[i])], <<",", " ">>)
       \o <<" ", "WHERE", " ">>
       \o ExpectedWhere(table, using)

\* C2: for a non-empty `using` that is a subset of the declared fields,
\* generate_update_query returns UPDATE T SET <T.f = :f for the fields outside
\* using, in declared order> WHERE <T.k = :k AND-joined over using>; when
\* using covers every declared field it raises the ValueError "No fields to
\* update ..." instead.
C2_UpdateSetAndWhere ==
  ( /\ Done("generate_update_query")
    /\ call.model.has_table
    /\ call.using # <<>>
    /\ Range(call.using) \subseteq Declared(call.model) )
    => IF Range(call.using) = Declared(call.model)
       THEN result.kind = "ValueError" /\ result.text = NO_FIELDS_TO_UPDATE_MSG
       ELSE result = Ok(ExpectedUpdate(call.model.table, call.model.model_fields,
                                       call.using))

\* An update over three declared fields keyed by the middle one: two fields
\* are left to set, and their order is the declared one.
C2_Witness ==
  /\ Done("generate_update_query")
  /\ call.model.has_table
  /\ Len(call.model.model_fields) = 3
  /\ call.using = <<call.model.model_fields[2]>>
  /\ call.model.model_fields[1] = "name"
  /\ result.kind = "ok"
  /\ NamesIn(Between(result.text, "SET", "WHERE"))
       = <<"name", "name", call.model.model_fields[3], call.model.model_fields[3]>>

\* ---- C3

UpsertSource(t) == Between(Squeeze(t), "SELECT", "FROM")

UpsertOn(t) == Between(Squeeze(t), "ON", "WHEN")

UpsertSet(t) == Between(After(Squeeze(t), "UPDATE"), "SET", "WHEN")

UpsertInsertColumns(t) == Between(After(Squeeze(t), "NOT"), "INSERT", "VALUES")

UpsertValues(t) == After(Squeeze(t), "VALUES")

\* C3: for a non-empty `using` of declared fields generate_upsert_query returns
\* a MERGE whose source row and ON condition range over exactly using, whose
\* WHEN MATCHED UPDATE SET ranges over the declared fields outside using, and
\* whose WHEN NOT MATCHED INSERT column list and VALUES list are all declared
\* fields in declared order; with an undeclared element in using it raises a
\* ValueError whose message names that element and the model.
C3_UpsertPartition ==
  ( /\ Done("generate_upsert_query")
    /\ call.model.has_table
    /\ call.using # <<>> )
    => LET fields == call.model.model_fields
           using == call.using
           rest == DeclaredMinus(fields, Range(using))
           t == result.text
       IN IF Range(using) \subseteq Declared(call.model)
          THEN /\ result.kind = "ok"
               /\ Squeeze(t)[1] = "MERGE"
               /\ AtomsAfter(Squeeze(t), "INTO") = <<call.model.table>>
               /\ AtomsAfter(UpsertSource(t), ":") = using
               /\ AtomsAfter(UpsertSource(t), "as") = using
               /\ QualifiedBy(UpsertOn(t), call.model.table) = using
               /\ QualifiedBy(UpsertOn(t), "src") = using
               /\ Len(AtomsAfter(UpsertOn(t), "AND")) = Len(using) - 1
               /\ AtomsBefore(UpsertSet(t), "=") = rest
               /\ AtomsAfter(UpsertSet(t), ":") = rest
               /\ NamesIn(UpsertInsertColumns(t)) = fields
               /\ AtomsAfter(UpsertValues(t), ":") = fields
               /\ NamesIn(UpsertValues(t)) = fields
          ELSE /\ result.kind = "ValueError"
               /\ \E f \in Range(using) \ Declared(call.model) :
                    result.text
                      = <<"The field '", f, "' does not exist in the model ",
                          call.model.name>>

\* A MERGE keyed by two of three declared fields.
C3_Witness ==
  /\ Done("generate_upsert_query")
  /\ call.model.has_table
  /\ Len(call.model.model_fields) = 3
  /\ Len(call.using) = 2
  /\ Range(call.using) \subseteq Declared(call.model)
  /\ result.kind = "ok"
  /\ Len(AtomsAfter(UpsertSet(result.text), ":")) = 1
  /\ Len(AtomsAfter(UpsertValues(result.text), ":")) = 3

\* ---- C4

ExpectedDelete(table, using) ==
  <<"DELETE", " ", "FROM", " ", table, " ", "WHERE", " ">> \o ExpectedWhere(table, using)

\* C4: generate_delete_query with an empty `using` raises the ValueError
\* "No fields specified in 'using'."; with one or more fields it returns
\* "DELETE FROM T WHERE" followed by T.k = :k AND-joined over the fields of
\* using, so that a returned DELETE always carries a key condition.
C4_DeleteKeyed ==
  (Done("generate_delete_query") /\ call.model.has_table)
    => /\ call.using = <<>>
            => result.kind = "ValueError" /\ result.text = EMPTY_USING_MSG
       /\ call.using # <<>>
            => result = Ok(ExpectedDelete(call.model.table, call.using))
       /\ result.kind = "ok"
            => /\ PlaceholderSet(After(result.text, "WHERE")) # {}
               /\ PlaceholderSet(After(result.text, "WHERE")) = Range(call.using)

\* A DELETE keyed by two fields.
C4_Witness ==
  /\ Done("generate_delete_query")
  /\ call.model.has_table
  /\ Len(call.using) = 2
  /\ result.kind = "ok"
  /\ Len(AtomsAfter(result.text, "AND")) = 1

\* ---- C5, C6

ExpectedSelect(table, fields) ==
  <<"SELECT", " ">>
    \o Flatten([i \in 1..Len(fields) |-> <<fields[i]>>], <<",", " ">>)
    \o <<" ", "FROM", " ", table>>

\* t up to its last atom that is no whitespace.
TrimRight(t) ==
  LET solid == {i \in 1..Len(t) : NotSpace(t[i])}
  IN IF solid = {} THEN <<>>
     ELSE SubSeq(t, 1, CHOOSE i \in solid : \A j \in solid : j <= i)

Denylist ==
  { <<";">>, <<"-", "-">>, <<"/", "*">>, <<"*", "/">>, <<"x", "p", "_">>,
    <<"e", "x", "e", "c">>, <<"d", "r", "o", "p">>,
    <<"s", "e", "l", "e", "c", "t">> }

CasePairs ==
  { <<"A", "a">>, <<"C", "c">>, <<"D", "d">>, <<"E", "e">>, <<"L", "l">>,
    <<"O", "o">>, <<"P", "p">>, <<"R", "r">>, <<"S", "s">>, <<"T", "t">>,
    <<"X", "x">> }

Fold(c) ==
  IF \E p \in CasePairs : p[1] = c
  THEN (CHOOSE p \in CasePairs : p[1] = c)[2]
  ELSE c

\* Some denylisted substring occurs in text, in any letter case.
Denied(text) ==
  \E pat \in Denylist :
    \E i \in 1..Len(text) :
      /\ i + Len(pat) - 1 <= Len(text)
      /\ \A k \in 1..Len(pat) : Fold(text[i + k - 1]) = pat[k]

WhereGiven(where) == where.present /\ where.text # <<>>

\* C5 as stated: without a where (absent or "") generate_select_query returns
\* "SELECT f1, ..., fn FROM T"; with any other where holding no denylisted
\* substring it returns that text, " WHERE " and the where text verbatim,
\* leading and trailing whitespace included.
C5_WhereVerbatim ==
  (Done("generate_select_query") /\ call.model.has_table)
    => LET base == ExpectedSelect(call.model.table, call.model.model_fields)
       IN /\ ~WhereGiven(call.where) => result = Ok(base)
          /\ (WhereGiven(call.where) /\ ~Denied(call.where.text))
               => result = Ok(base \o <<" ", "WHERE", " ">> \o call.where.text)

\* C5 as amended: the statement is returned with its trailing whitespace
\* removed, so the where text appears after " WHERE " without its trailing
\* whitespace (its leading whitespace is kept, and a where of whitespace only
\* leaves the statement ending in "WHERE").
C5_WhereTrimmed ==
  (Done("generate_select_query") /\ call.model.has_table)
    => LET base == ExpectedSelect(call.model.table, call.model.model_fields)
       IN /\ ~WhereGiven(call.where) => result = Ok(base)
          /\ (WhereGiven(call.where) /\ ~Denied(call.where.text))
               => result
                    = Ok(TrimRight(base \o <<" ", "WHERE", " ">> \o call.where.text))

\* A harmless filter with whitespace on both sides went through.
C5_Witness ==
  /\ Done("generate_select_query")
  /\ call.model.has_table
  /\ WhereGiven(call.where)
  /\ Len(call.where.text) >= 3
  /\ call.where.text[1] = " "
  /\ call.where.text[Len(call.where.text)] = " "
  /\ result.kind = "ok"
  /\ Pos(result.text, "WHERE", 1) # 0

\* C6: generate_select_query raises the ValueError "Clause WHERE invalid"
\* for every non-empty where whose lowercased text contains one of ; -- /* */
\* xp_ exec drop select anywhere, and for no other non-empty where.
C6_DenylistExact ==
  (Done("generate_select_query") /\ call.model.has_table /\ WhereGiven(call.where))
    => /\ result.kind = "ValueError" <=> Denied(call.where.text)
       /\ result.kind = "ok" <=> ~Denied(call.where.text)
       /\ result.kind = "ValueError"
            => result.text = <<"Clause WHERE invalid : ">> \o call.where.text

\* An upper-case DROP inside a longer word was rejected.
C6_Witness ==
  /\ Done("generate_select_query")
  /\ call.model.has_table
  /\ WhereGiven(call.where)
  /\ call.where.text = <<"a", "D", "R", "O", "P", "a">>
  /\ result.kind = "ValueError"

\* ---- C7

Generators ==
  { "generate_insert_query", "generate_select_query", "generate_delete_query",
    "generate_update_query", "generate_upsert_query" }

\* C7: for a model without __TABLE_NAME__ each of the five generators raises
\* the AttributeError and returns no SQL, whatever `using` and `where` are.
C7_SchemaErrorFirst ==
  (pc = "done" /\ call.op \in Generators /\ ~call.model.has_table)
    => result.kind = "AttributeError"

\* An upsert on a model without a table name and with an empty `using`.
C7_Witness ==
  /\ Done("generate_upsert_query")
  /\ ~call.model.has_table
  /\ call.using = <<>>
  /\ result.kind = "AttributeError"

\* ---- C8

KeyedGenerators ==
  {"generate_update_query", "generate_delete_query", "generate_upsert_query"}

\* C8: generate_update_query, generate_delete_query and generate_upsert_query
\* each raise a ValueError, and return no SQL, whenever `using` holds a name
\* that is no declared field.
C8_UsingDeclared ==
  ( /\ pc = "done"
    /\ call.op \in KeyedGenerators
    /\ call.model.has_table
    /\ ~(Range(call.using) \subseteq Declared(call.model)) )
    => result.kind = "ValueError"

\* ---- C9

Generate(op, model, using) ==
  CASE op = "generate_update_query" -> generate_update_query(model, using)
    [] op = "generate_delete_query" -> generate_delete_query(model, using)
    [] op = "generate_upsert_query" -> generate_upsert_query(model, using)

\* C9: the generated text follows the declared field order and never the order
\* of `using`: any other ordering of the same key fields gives the same SQL.
C9_UsingOrderIrrelevant ==
  ( /\ pc = "done"
    /\ call.op \in KeyedGenerators
    /\ call.model.has_table
    /\ result.kind = "ok" )
    => \A other \in Usings :
         (Len(other) = Len(call.using) /\ Range(other) = Range(call.using))
           => Generate(call.op, call.model, other) = result

\* ---- C10

SingularWrites == {"insert", "upsert", "update", "delete"}

\* C10: for every singular write and every record, the named placeholders of
\* the executed statement are the keys of the value map bound to it, which
\* are the fields set on the record.
C10_PlaceholdersAreBoundKeys ==
  (pc = "done" /\ call.op \in SingularWrites)
    => \A i \in 1..Len(log) :
         log[i].ev = "execute"
           => /\ DOMAIN log[i].values = call.record.fields_set
              /\ PlaceholderSet(log[i].sql) = DOMAIN log[i].values

\* ---- C11

PluralWrites == {"insert_all", "upsert_all", "delete_all", "update_all"}

\* C11: a plural write called with an empty list of records returns normally
\* and makes no call on the backend at all, whatever `using` is (an empty or
\* undeclared `using` included: no statement is generated) and whether or not
\* the connection is still open.
C11_EmptyListNoOp ==
  (pc = "done" /\ call.op \in PluralWrites /\ call.records = <<>>)
    => /\ result = Ok(<<>>)
       /\ log = <<>>

\* upsert_all([], using=[]) returned: the statement would have been refused.
C11_Witness ==
  /\ Done("upsert_all")
  /\ call.records = <<>>
  /\ call.using = <<>>
  /\ result.kind = "ok"

\* ---- C12

\* The statement an operation of the facade runs for a class.
StatementFor(op, model, using, where) ==
  CASE op \in {"insert", "insert_all"} -> generate_insert_query(model)
    [] op \in {"upsert", "upsert_all"} -> generate_upsert_query(model, using)
    [] op \in {"delete", "delete_all"} -> generate_delete_query(model, using)
    [] op \in {"update", "update_all"} -> generate_update_query(model, using)
    [] OTHER -> generate_select_query(model, where)

\* The positions of the log at which a statement was handed to the backend.
Executions == {i \in 1..Len(log) : log[i].ev \in {"execute", "executemany"}}

\* m binds exactly the fields of K, each to the value the record holds.
BindsFrom(m, rec, K) ==
  /\ DOMAIN m = K
  /\ \A f \in K : m[f] = rec.values[f]

\* The fields a plural write binds for a record.
BoundFields(op, rec, using) ==
  IF op = "delete_all"
  THEN {f \in rec.fields_set : \E k \in 1..Len(using) : using[k] = f}
  ELSE rec.fields_set

\* C12: a plural write on n >= 1 records whose statement can be generated, on
\* an open connection, hands the backend one statement only, the one of the
\* first record's class, in a single executemany call that carries n value
\* maps, the i-th being the dump of the i-th record; there is no execute call
\* per record.
C12_OneBatchedCall ==
  ( /\ pc = "done"
    /\ call.op \in PluralWrites
    /\ call.records # <<>>
    /\ conn.connection = "open" )
    => LET stmt == StatementFor(call.op, call.records[1].type, call.using, NoWhere)
           n == Len(call.records)
       IN stmt.kind = "ok"
            => /\ Cardinality(Executions) = 1
               /\ \A i \in Executions :
                    /\ log[i].ev = "executemany"
                    /\ log[i].sql = stmt.text
                    /\ Len(log[i].values) = n
                    /\ \A k \in 1..n :
                         BindsFrom(log[i].values[k], call.records[k],
                                   BoundFields(call.op, call.records[k], call.using))

\* update_all ran on two records of different classes that set different
\* fields; the second record's class has no table name.
C12_Witness ==
  /\ Done("update_all")
  /\ Len(call.records) = 2
  /\ call.records[1].type = SimpleTable
  /\ call.records[2].type = NoTableNameModel
  /\ call.records[1].fields_set # call.records[2].fields_set
  /\ result.kind = "ok"
  /\ Executions # {}

\* ---- C13

\* C13: every value map delete_all hands to the backend binds fields of
\* `using` only, and of those the ones set on its record: a field outside
\* `using` is never bound, whatever else the record has set.
C13_DeleteAllBindsKeysOnly ==
  Done("delete_all")
    => \A i \in Executions :
         \A k \in 1..Len(log[i].values) :
           LET bound == DOMAIN log[i].values[k]
               keys == {call.using[j] : j \in 1..Len(call.using)}
           IN /\ bound \subseteq keys
              /\ bound = keys \cap call.records[k].fields_set

\* delete_all(using=["id"]) ran on a record that has id and name set.
C13_Witness ==
  /\ Done("delete_all")
  /\ call.using = <<"id">>
  /\ Len(call.records) >= 1
  /\ call.records[1].fields_set = {"id", "name"}
  /\ Executions # {}
  /\ \A i \in Executions : DOMAIN log[i].values[1] = {"id"}

\* ---- C14

Writes == SingularWrites \cup PluralWrites

Reads == {"select_one", "select_all", "select_in_batches"}

FetchCalls == {i \in 1..Len(log) : log[i].ev \in {"fetchone", "fetchall", "fetchmany"}}

Rollbacks == {i \in 1..Len(log) : log[i].ev = "rollback"}

ScopeExits == {i \in 1..Len(log) : log[i].ev \in {"session_close", "cursor_close"}}

\* The driver raised in the execution of the call's statement or in a fetch
\* of its rows.
RaisedInExecuteOrFetch ==
  \/ backend.outcome.at = "execute" /\ Executions # {}
  \/ backend.outcome.at = "fetch" /\ FetchCalls # {}
  \/ backend.outcome.at = "refetch" /\ Cardinality(FetchCalls) >= 2

\* C14: when the driver raises in the execution or in a fetch of a write or a
\* read, the call ends with the driver's own error, the log holds a rollback
\* made after the failing call and before the session or cursor scope is
\* left, and the statement was handed to the backend once only.
C14_RollbackThenSameError ==
  (pc = "done" /\ call.op \in Writes \cup Reads /\ RaisedInExecuteOrFetch)
    => /\ result.kind = backend.outcome.error.kind
       /\ result.text = backend.outcome.error.text
       /\ Cardinality(Executions) = 1
       /\ \E r \in Rollbacks :
            /\ \A i \in Executions \cup FetchCalls : i < r
            /\ \A x \in ScopeExits : r < x
       /\ ScopeExits # {}

\* The second fetchmany of select_in_batches raised after a chunk had been
\* handed out.
C14_Witness ==
  /\ Done("select_in_batches")
  /\ backend.outcome.at = "refetch"
  /\ Cardinality(FetchCalls) = 2
  /\ result = backend.outcome.error
  /\ Rollbacks # {}

\* ---- C15

CommitCalls == {i \in 1..Len(log) : log[i].ev = "commit"}

\* The commit calls that returned: the driver raises in at most one call, and
\* backend.outcome names it.
CompletedCommits == IF backend.outcome.at = "commit" THEN {} ELSE CommitCalls

\* The value maps made durable: those of an execution that a completed commit
\* follows with no rollback in between.
CommittedMaps ==
  { log[i].values :
      i \in { e \in Executions :
                \E c \in CompletedCommits :
                  e < c /\ ~\E r \in Rollbacks : e < r /\ r < c } }

\* C15 as stated: a write that reaches the backend is committed exactly once
\* and not rolled back when its execution succeeds, and rolled back and never
\* committed when its execution fails.
C15_CommitIffExecuted ==
  (pc = "done" /\ call.op \in Writes /\ Executions # {})
    => IF backend.outcome.at # "execute"
       THEN Cardinality(CompletedCommits) = 1 /\ Rollbacks = {}
       ELSE Rollbacks # {} /\ CommitCalls = {}

\* C15 as amended: a write that reaches the backend is one transaction. When
\* its execution and its commit succeed it is committed by exactly one commit
\* call, after the execution, and not rolled back. When the execution raises
\* it is rolled back once and commit is never called; when the commit raises
\* it is rolled back once after that one commit call. After either failure
\* no value map of the call is committed.
C15_OneTransaction ==
  (pc = "done" /\ call.op \in Writes /\ Executions # {})
    => /\ Cardinality(Executions) = 1
       /\ Cardinality(CommitCalls) <= 1
       /\ \A e \in Executions, c \in CommitCalls : e < c
       /\ backend.outcome.at = "none"
            => /\ Cardinality(CompletedCommits) = 1
               /\ Rollbacks = {}
               /\ CommittedMaps = {log[e].values : e \in Executions}
               /\ result.kind = "ok"
       /\ backend.outcome.at # "none"
            => /\ Cardinality(Rollbacks) = 1
               /\ CompletedCommits = {}
               /\ CommittedMaps = {}
               /\ \A r \in Rollbacks : \A i \in Executions \cup CommitCalls : i < r
               /\ result.kind # "ok"
       /\ backend.outcome.at = "execute" => CommitCalls = {}

\* The commit of a batch of two value maps raised and the batch was rolled
\* back.
C15_Witness ==
  /\ Done("insert_all")
  /\ Len(call.records) = 2
  /\ backend.outcome.at = "commit"
  /\ CommitCalls # {}
  /\ Rollbacks # {}
  /\ CommittedMaps = {}

\* ---- C16

\* The call in progress is one whose statement cannot be generated. (A plural
\* write generates from the class of its first record, and from nothing when
\* the list is empty.)
GenerationFails ==
  /\ call.op \in Writes \cup Reads
  /\ call.op \in PluralWrites => call.records # <<>>
  /\ StatementFor(call.op, call.model, call.using, call.where).kind # "ok"

\* C16: when the statement of a facade operation cannot be generated, the
\* caller gets the generator's error and no call at all has been made on the
\* backend. For select_in_batches the error comes out of the first next() on
\* the generator, which never yields; a generator dropped before that has
\* done nothing.
C16_GenerationErrorFirst ==
  GenerationFails
    => /\ log = <<>>
       /\ result.kind # "records"
       /\ pc = "done"
            => \/ result = StatementFor(call.op, call.model, call.using, call.where)
               \/ call.op = "select_in_batches" /\ result = Ok(<<>>)

\* The first next() on select_in_batches with a denylisted filter raised the
\* ValueError of generate_select_query.
C16_Witness ==
  /\ Done("select_in_batches")
  /\ Truthy(call.where)
  /\ result.kind = "ValueError"
  /\ log = <<>>

\* ---- C17

\* C17: clean_up returns normally whichever of engine.dispose(),
\* connection.is_healthy() and connection.close() raises, on a connected
\* facade and on one that an earlier clean_up has released; the call that
\* raised is the last one clean_up makes.
C17_CleanUpSwallows ==
  Done("clean_up")
    => /\ result = Ok(<<>>)
       /\ backend.outcome.at \in {"dispose", "is_healthy", "close"}
            => log # <<>> /\ log[Len(log)].ev = backend.outcome.at

\* A second clean_up, on a released facade, whose health check raised.
C17_Witness ==
  /\ Done("clean_up")
  /\ conn = Closed
  /\ backend.outcome.at = "is_healthy"
  /\ result.kind = "ok"

\* ---- C18

\* C18: once a clean_up has closed the connection, every operation of the
\* facade fails with NotConnectedError and makes no call on the backend.
C18_ClosedFailsFast ==
  (pc = "done" /\ call.op \in Writes \cup Reads /\ conn = Closed)
    => /\ result.kind = "NotConnectedError"
       /\ log = <<>>

\* ---- C19

\* The rows of the table that the caller's filter lets through: all of them
\* without a filter.
Matching ==
  LET kept == {i \in 1..Len(backend.table) :
                 WhereGiven(call.where) => backend.table[i].matches}
  IN [k \in 1..Cardinality(kept) |->
        backend.table[CHOOSE i \in kept : Cardinality({j \in kept : j <= i}) = k]]

\* The read went through: its statement was generated and the driver raised
\* nowhere.
ReadWentThrough ==
  /\ pc = "done"
  /\ call.op \in {"select_one", "select_all"}
  /\ Executions # {}
  /\ backend.outcome.at = "none"

\* C19: when no row matches, select_one returns None and select_all returns
\* the empty list; neither raises and neither rolls back.
C19_AbsenceIsAValue ==
  (ReadWentThrough /\ Matching = <<>>)
    => /\ call.op = "select_one" => result.kind = "none"
       /\ call.op = "select_all" => result.kind = "records" /\ result.text = <<>>
       /\ Rollbacks = {}
       /\ FetchCalls # {}

\* select_all with a filter ran on a table of two rows, neither satisfying it.
C19_Witness ==
  /\ Done("select_all")
  /\ WhereGiven(call.where)
  /\ Len(backend.table) = 2
  /\ Matching = <<>>
  /\ result.kind = "records"
  /\ result.text = <<>>

\* ---- C20

\* C20: select_all returns one record per row the backend returns for the
\* generated statement, in the backend's order: the k-th record holds, under
\* the j-th declared field, the j-th column value of the k-th such row, and
\* with a filter those rows are the ones that satisfy it.
C20_RecordsAreRows ==
  (ReadWentThrough /\ call.op = "select_all")
    => LET fields == call.model.model_fields
       IN /\ result.kind = "records"
          /\ Len(result.text) = Len(Matching)
          /\ \A i \in Executions :
               log[i].sql = generate_select_query(call.model, call.where).text
          /\ \A k \in 1..Len(Matching) :
               /\ result.text[k].fields_set = {fields[j] : j \in 1..Len(fields)}
               /\ \A j \in 1..Len(fields) :
                    result.text[k].values[fields[j]] = Matching[k].cols[j]

\* select_all with a filter ran on a table whose first row fails the filter
\* and whose second row, with two different column values, satisfies it.
C20_Witness ==
  /\ Done("select_all")
  /\ WhereGiven(call.where)
  /\ Len(backend.table) = 2
  /\ ~backend.table[1].matches
  /\ backend.table[2].matches
  /\ backend.table[2].cols = <<"v", "w">>
  /\ result.kind = "records"
  /\ Len(result.text) = 1
  /\ result.text[1].values["id"] = "v"
  /\ result.text[1].values["name"] = "w"

\* ---- C21

\* The record a row becomes: its j-th column value under the j-th field.
RowAsRecord(fields, cols) ==
  LET names == {fields[j] : j \in 1..Len(fields)}
  IN [ values |-> [f \in names |-> cols[CHOOSE j \in 1..Len(fields) : fields[j] = f]],
       fields_set |-> names ]

\* The k-th batch of c records cut from the rows the statement returns.
Batch(k, c) ==
  LET n == Len(Matching)
      from == (k - 1) * c
      size == IF n - from < c THEN n - from ELSE c
  IN [i \in 1..size |-> RowAsRecord(call.model.model_fields, Matching[from + i].cols)]

\* C21: over a result of n rows, with chunksize c, the k-th fetch of
\* select_in_batches hands out rows (k-1)c+1 .. min(kc, n) as records, in
\* backend order, and never an empty batch; the generator is exhausted by the
\* fetch after ceil(n/c) batches, which is the first fetch when n = 0.
C21_BatchesPartitionRows ==
  ( /\ call.op = "select_in_batches"
    /\ gen.started
    /\ FetchCalls # {}
    /\ backend.outcome.at \in {"none", "refetch"} )
    => LET n == Len(Matching)
           c == call.chunksize
           k == Cardinality(FetchCalls)
       IN /\ pc = "iterating" => result.kind = "records"
          /\ result.kind = "records"
               => /\ (k - 1) * c < n
                  /\ result.text # <<>>
                  /\ k * c <= n => Len(result.text) = c
                  /\ result.text = Batch(k, c)
          /\ (pc = "done" /\ backend.outcome.at = "none")
               => /\ result.kind = "StopIteration"
                  /\ (k - 1) * c >= n
                  /\ k >= 2 => (k - 2) * c < n

\* Three rows fetched two at a time: a batch of two, a batch of one, and the
\* third fetch ends the iteration.
C21_Witness ==
  /\ Done("select_in_batches")
  /\ result.kind = "StopIteration"
  /\ call.chunksize = 2
  /\ Len(Matching) = 3
  /\ Cardinality(FetchCalls) = 3

\* ---- C22

CursorOpens == {i \in 1..Len(log) : log[i].ev = "cursor_open"}

CursorCloses == {i \in 1..Len(log) : log[i].ev = "cursor_close"}

\* However the iteration ended (exhaustion, a backend error, the consumer
\* closing the generator), a cursor that was opened has been closed, once, by
\* the last call made on the backend.
ScopeReleased ==
  (pc = "done" /\ call.op = "select_in_batches" /\ CursorOpens # {})
    => /\ Cardinality(CursorOpens) = 1
       /\ CursorCloses = {Len(log)}

\* Closing the generator raises nothing, fetches nothing and rolls nothing
\* back: all it does on the backend is leave the cursor scope, when the body
\* had entered it.
QuietClose ==
  generator_close
    => /\ result' = Ok(<<>>)
       /\ pc' = "done"
       /\ \/ log' = log /\ CursorOpens = {}
          \/ log' = Append(log, Event("cursor_close")) /\ CursorOpens # {}

\* C22: select_in_batches is safe to abandon after any number of batches, and
\* its cursor scope is released on every way out.
C22_SafeToAbandon == [](ScopeReleased) /\ [][QuietClose]_vars

\* The consumer closed the generator after the first of two batches.
C22_Witness ==
  /\ Done("select_in_batches")
  /\ result = Ok(<<>>)
  /\ Cardinality(FetchCalls) = 1
  /\ Len(Matching) > call.chunksize
  /\ CursorCloses = {Len(log)}
  /\ Rollbacks = {}

\* ---- C29

\* The call itself: whatever the model and the filter, the caller gets a
\* generator, nothing has been validated and no call was made on the backend.
CallIsInert ==
  select_in_batches
    => /\ pc' = "iterating"
       /\ result'.kind = "generator"
       /\ log' = <<>>
       /\ ~gen'.started
       /\ conn' = conn

\* The generator before its first next(): still nothing done.
NotYetRequested ==
  (call.op = "select_in_batches" /\ pc = "iterating" /\ ~gen.started)
    => result.kind = "generator" /\ log = <<>>

\* A statement that cannot be generated makes the first next() raise the
\* generator's error, with no cursor opened.
SurfacesOnFirstRequest ==
  ( /\ Done("select_in_batches")
    /\ generate_select_query(call.model, call.where).kind # "ok"
    /\ result # Ok(<<>>) )
    => /\ result = generate_select_query(call.model, call.where)
       /\ log = <<>>

\* C29: calling select_in_batches does nothing; a missing table name or a
\* denylisted filter surfaces on the first request for a batch, before any
\* cursor is opened.
C29_LazyUntilFirstBatch ==
  [](NotYetRequested /\ SurfacesOnFirstRequest) /\ [][CallIsInert]_vars

\* select_in_batches was called on a model without table name and returned
\* its generator.
C29_Witness ==
  /\ call.op = "select_in_batches"
  /\ pc = "iterating"
  /\ ~call.model.has_table
  /\ result.kind = "generator"
  /\ log = <<>>

\* ---- C30

\* C30: when engine.dispose() raises, clean_up still closes the connection:
\* on return the connection is closed (it was closed before, or clean_up
\* closed it).
C30_ReleaseStepsIndependent ==
  (Done("clean_up") /\ backend.outcome.at = "dispose")
    => conn = Closed

\* ---- C27

\* C27: the column list of the statement generate_insert_query returns for a
\* model is, in content and order, the column list of the statement
\* generate_select_query returns for it (the declared model fields), for
\* models that inherit a field or annotate a class-level attribute too.
C27_InsertFieldsAreModelFields ==
  (Done("generate_insert_query") /\ result.kind = "ok")
    => NamesIn(Between(result.text, "(", ")"))
         = NamesIn(Between(generate_select_query(call.model, NoWhere).text,
                           "SELECT", "FROM"))

\* ---- C28

\* C28: generate_upsert_query returns no statement whose WHEN MATCHED UPDATE
\* SET clause assigns nothing: a `using` covering every declared field raises
\* a ValueError.
C28_UpsertSetNeverEmpty ==
  Done("generate_upsert_query")
    => /\ result.kind = "ok" => NamesIn(UpsertSet(result.text)) # <<>>
       /\ ( /\ call.model.has_table
            /\ call.using # <<>>
            /\ Range(call.using) = Declared(call.model) )
            => result.kind = "ValueError"

\* ---- C23..C26: what the properties read off the table

\* The rows the call in progress met.
TableBefore == backend.table

\* The row's K-fields hold the record's K-values.
KeyEqual(row, record, K) ==
  \A i \in 1..Len(K) : row[K[i]] = record.values[K[i]]

RowsWithKey(rows, record, K) == {i \in 1..Len(rows) : KeyEqual(rows[i], record, K)}

\* No two rows agree on every field of K.
NoDuplicates(rows, K) ==
  \A i, j \in 1..Len(rows) :
    i # j => \E k \in 1..Len(K) : rows[i][K[k]] # rows[j][K[k]]

\* The row that holds every field of the record.
RowOf(record) == [c \in TableColumns |-> record.values[c]]

\* The row after an update from the record: the fields outside K are the
\* record's, the K-fields are as they were.
Updated(row, record, K) ==
  [c \in TableColumns |-> IF c \in Range(K) THEN row[c] ELSE record.values[c]]

\* ---- C23

\* C23: round trip: after a record with every declared field set is written
\* with insert or upsert into a table holding no other matching row,
\* select_one with a filter matching its key returns a record equal to the
\* original on every declared field.
C23_RoundTrip ==
  \A c \in TableColumns, v \in ColumnValues :
    ( /\ Done("select_one")
      /\ backend.outcome = Succeeds
      /\ previous.op \in {"insert", "upsert"}
      /\ previous.model = call.model
      /\ previous.record.fields_set = Declared(previous.model)
      /\ call.where = KeyFilter(c, v)
      /\ previous.record.values[c] = v
      /\ Cardinality({i \in 1..Len(db) : db[i][c] = v}) <= 1 )
    => /\ result.kind = "record"
       /\ \A f \in Declared(call.model) :
            result.text.values[f] = previous.record.values[f]

\* ---- C24

\* C24: an upsert(record, using=K) on a table without duplicate K-values
\* leaves it without duplicate K-values: when no row holds the record's key
\* it adds one row with all the record's fields, otherwise it sets the non-key
\* fields of the row that holds the key to the record's values and adds no
\* row. By induction the same holds after any sequence of such calls.
C24_UpsertOneRowPerKey ==
  ( /\ Done("upsert")
    /\ backend.outcome = Succeeds
    /\ NoDuplicates(TableBefore, call.using) )
  => LET hits == RowsWithKey(TableBefore, call.record, call.using)
     IN /\ NoDuplicates(db, call.using)
        /\ hits = {} => db = Append(TableBefore, RowOf(call.record))
        /\ hits # {} =>
             /\ Len(db) = Len(TableBefore)
             /\ \A i \in 1..Len(db) :
                  db[i] = IF i \in hits
                          THEN Updated(TableBefore[i], call.record, call.using)
                          ELSE TableBefore[i]

\* ---- C25

\* The rows whose K-fields differ from the K-values of every record.
Others(rows, records, K) ==
  SelectSeq(rows, LAMBDA row :
    \A i \in 1..Len(records) : ~KeyEqual(row, records[i], K))

DeletedOnlyKeys(records, K) ==
  /\ \A i \in 1..Len(db), j \in 1..Len(records) : ~KeyEqual(db[i], records[j], K)
  /\ Others(db, records, K) = Others(TableBefore, records, K)

\* C25: after insert(r) followed by delete(r, using=K) no row whose K-fields
\* equal r's K-values remains and every row whose K-values differ is
\* unchanged; the same for insert_all followed by delete_all over the same
\* records.
C25_DeleteRemovesOnlyKey ==
  /\ ( /\ Done("delete") /\ result = Ok(<<>>)
       /\ previous.op = "insert"
       /\ previous.model = call.model /\ previous.record = call.record )
     => DeletedOnlyKeys(<<call.record>>, call.using)
  /\ ( /\ Done("delete_all") /\ result = Ok(<<>>)
       /\ previous.op = "insert_all"
       /\ previous.records = call.records )
     => DeletedOnlyKeys(call.records, call.using)

\* A delete after the insert of the same record that removes a row and
\* leaves a row with another key behind.
C25_Witness ==
  /\ Done("delete") /\ result = Ok(<<>>)
  /\ previous.op = "insert"
  /\ previous.model = call.model /\ previous.record = call.record
  /\ Len(call.using) = 2
  /\ RowsWithKey(TableBefore, call.record, call.using) # {}
  /\ Len(db) = 1 /\ Len(TableBefore) = 2
  /\ db[1]["id"] = call.record.values["id"]

\* ---- C26

\* C26: after insert(r), a change of r's non-key fields and
\* update(r, using=K), the row whose K-fields equal r's K-values holds r's
\* new value on every non-key field, its K-fields are unchanged, the number
\* of rows is unchanged and the rows with other K-values are not modified.
C26_UpdateChangesOnlyNonKey ==
  ( /\ Done("update") /\ result = Ok(<<>>)
    /\ previous.op = "insert"
    /\ previous.model = call.model
    /\ \A k \in Range(call.using) :
         previous.record.values[k] = call.record.values[k] )
  => /\ RowsWithKey(db, call.record, call.using) # {}
     /\ Len(db) = Len(TableBefore)
     /\ \A i \in 1..Len(db) :
          db[i] = IF KeyEqual(TableBefore[i], call.record, call.using)
                  THEN Updated(TableBefore[i], call.record, call.using)
                  ELSE TableBefore[i]

====
